---- MODULE Spec2Model ----
(***************************************************************************)
(* CalmAquarium: the pet-health / water-quality simulation engine.         *)
(*                                                                         *)
(*   WaterQualityManager  (turbidity over time, weekly reset)              *)
(*   FishBehaviorManager  (behaviour state from water level and pet)       *)
(*   useAppStore          (createPet / updatePetHealth / killPet)          *)
(*   petHealth.ts         (pure health calculations)                       *)
(*                                                                         *)
(* Numbers.  JavaScript numbers are modelled exactly on the inputs the     *)
(* model enumerates:                                                       *)
(*   - the WaterQualityManager's instants and durations are whole seconds  *)
(*     (the code's milliseconds / 1000), the clock is read on a 10-second  *)
(*     grid;                                                               *)
(*   - turbidity is a fixed-point number with denominator FP (1/FP %);     *)
(*   - speed is a fixed-point number with denominator SpeedDen;            *)
(*   - the health calculations use rationals [n, d] in lowest terms.       *)
(***************************************************************************)
EXTENDS Integers, Sequences, FiniteSets, Bags, TLC

VARIABLES
    \* ---- WaterQualityManager (src/unnamed/part_006) ----
    now,               \* the wall clock read by new Date(), seconds since a Sunday 00:00 local
    currentTurbidity,  \* this.currentTurbidity, in 1/FP percent
    lastUpdateTime,    \* this.lastUpdateTime, seconds
    lastResetTime,     \* this.lastResetTime, seconds
    wqOp,              \* the last WaterQualityManager call: its inputs and the state it found
    \* ---- FishBehaviorManager ----
    behaviorState,     \* this.behaviorState
    fishOp,            \* the last FishBehaviorManager call and its arguments
    \* ---- useAppStore ----
    pet,               \* state.pet.current (NoPet when null) and state.pet.isMonitoring
    memorial,          \* state.memorial: deadPets, usedNames
    game,              \* state.game: stats, aquariumConfig.waterQuality
    storeOp,           \* the last store action and its arguments
    \* ---- petHealth.ts (pure functions) ----
    calc,              \* the last calculation: function, inputs, result
    \* ---- monitoring (WaterQualityManager, FishBehaviorManager, AppUsageService) ----
    wqMon,             \* WaterQualityManager: isActive, updateTimer, onStateChange
    fishMon,           \* FishBehaviorManager: isActive, updateTimer, animationTimer, onStateChange
    usageMon,          \* AppUsageService: isMonitoring, monitoringInterval, onUsageUpdate, restrictedApps
    timers,            \* the interval timers alive in the JavaScript runtime
    fetches,           \* the updateUsageStats executions suspended at their await
    monOp,             \* the last start / stop / timer step and what it found
    notified,          \* the observer invocations made by the last manager step
    motion,            \* behaviorState.position, .velocity and .animationPhase
    driven,            \* the service object whose monitoring the behaviour exercises
    \* ---- DataPersistenceService and AsyncStorageDB ----
    appRestrictionsState, \* useAppStore: state.appUsage.restrictions
    isSaving,          \* DataPersistenceService.isSaving
    lastSavedState,    \* DataPersistenceService.lastSavedState
    saves,             \* the saveAllData executions suspended at database.saveData
    stored,            \* AsyncStorage item APP_STATE, as the JSON value of its text
    exported,          \* the string exportData returned last
    saveOp,            \* the last persistence step and what it returned
    \* ---- AppUsageService: permission and usage statistics ----
    granted,           \* the device grants PACKAGE_USAGE_STATS to the app
    permissionCache,   \* AppUsageService.permissionCache
    usageStatsCache,   \* AppUsageService.usageStatsCache
    statsOp,           \* the last getUsageStats / hasPermission call and its result
    \* ---- AsyncStorageDB: initialization and partial saves ----
    isInitialized,     \* AsyncStorageDB.isInitialized
    partials,          \* the savePet and updateGameStats executions, by method
    dbOp               \* the last AsyncStorageDB call that returned, and its result

wqVars    == <<now, currentTurbidity, lastUpdateTime, lastResetTime, wqOp>>
fishVars  == <<behaviorState, fishOp>>
storeVars == <<pet, memorial, game, storeOp>>
calcVars  == <<calc>>
monVars   == <<wqMon, fishMon, usageMon, timers, fetches, monOp>>
saveVars  == <<appRestrictionsState, isSaving, lastSavedState, saves, stored, exported, saveOp>>
statsVars == <<granted, permissionCache, usageStatsCache, statsOp>>
dbVars    == <<isInitialized, partials, dbOp>>
restVars  == <<driven, saveVars, statsVars, dbVars>>
vars      == <<now, currentTurbidity, lastUpdateTime, lastResetTime, wqOp,
               behaviorState, fishOp, pet, memorial, game, storeOp, calc,
               wqMon, fishMon, usageMon, timers, fetches, monOp, notified, motion,
               driven, appRestrictionsState, isSaving, lastSavedState, saves, stored, exported,
               saveOp, granted, permissionCache, usageStatsCache, statsOp,
               isInitialized, partials, dbOp>>

Min(a, b) == IF a <= b THEN a ELSE b
Max(a, b) == IF a >= b THEN a ELSE b

\* The mathematical clamp of v into [lo, hi], as the specification means it.
ClampTo(v, lo, hi) == IF v < lo THEN lo ELSE IF v > hi THEN hi ELSE v

(***************************************************************************)
(* shared/utils: clamp is curried with the bounds FIRST:                   *)
(*   clamp = curry((min, max, value) => Math.min(Math.max(value, min), max))*)
(* The operator takes its arguments in the positions of the call.          *)
(***************************************************************************)
clampNoUpper(min, max, value) == Max(value, min)

clamp(min, max, value) == Min(Max(value, min), max)

(***************************************************************************)
(* Bounds of the model                                                     *)
(***************************************************************************)
MaxWeek    == 2     \* the clock is read during weeks 0..MaxWeek (day 0 is a Sunday)
MaxSamples == 2     \* usage samples passed to one updateTurbidity call
MaxPets    == 2     \* pets created in one run of the store
MaxUsages  == 2     \* usage samples passed to one calculateTotalUsageDamage call
MaxFetches == 2     \* updateUsageStats executions suspended at the same time

(***************************************************************************)
(* Time                                                                    *)
(***************************************************************************)
SecPerMinute == 60
SecPerDay    == 24 * 60 * SecPerMinute
DaysPerWeek  == 7
MsPerMinute  == 60 * 1000     \* the health calculations take milliseconds

\* Offsets inside a day at which the clock is read: midnight and 10 s (one
\* UPDATE_INTERVAL) after it.
DayOffsets == {0, 10}

\* Days on which the clock is read: Sunday and Saturday of week 0, Sunday of
\* week 1, Monday of the later weeks.
ClockDays == {0, 6, 7} \cup {DaysPerWeek * w + 1 : w \in 2..MaxWeek}

\* The clock is read at midnight of these days, and 10 s into the Sundays.
ClockValues ==
    {d * SecPerDay : d \in ClockDays} \cup
    {d * SecPerDay + o : d \in {0, 7}, o \in DayOffsets}

\* Date.prototype.getDay(): 0 = Sunday.
getDay(t) == (t \div SecPerDay) % DaysPerWeek

\* setHours(0, 0, 0, 0)
StartOfDay(t) == t - (t % SecPerDay)

getLastSundayKeepsDay(date) == StartOfDay(date)

getLastSunday(date) ==
    LET day  == getDay(date)
        diff == IF day = 0 THEN 0 ELSE day
    IN  StartOfDay(date - diff * SecPerDay)

getNextSunday(date) ==
    LET day             == getDay(date)
        daysUntilSunday == IF day = 0 THEN 7 ELSE 7 - day
    IN  StartOfDay(date + daysUntilSunday * SecPerDay)

(***************************************************************************)
(* WATER_QUALITY_CONSTANTS and DEFAULT_VALUES                              *)
(***************************************************************************)
FP == 12                     \* turbidity is kept in 1/FP percent
MAX_TURBIDITY == 100
MIN_TURBIDITY == 0
TURBIDITY_INCREASE_RATE == 2 \* percent per minute
\* TURBIDITY_DECREASE_RATE is 0.5 percent per minute
TURBIDITY_DECREASE_RATE_NUM == 1
TURBIDITY_DECREASE_RATE_DEN == 2
CLEAN_THRESHOLD    == 20
MODERATE_THRESHOLD == 50
DIRTY_THRESHOLD    == 80
AQUARIUM_WATER_QUALITY == 100

\* ms / (1000 * 60) for a duration given in seconds, in 1/FP minutes (exact
\* on the 10-second grid)
ToMinutes(seconds) == seconds \div (SecPerMinute \div FP)

(***************************************************************************)
(* Usage samples: todayUsage (seconds) and lastUsed (instant)              *)
(***************************************************************************)
UsageValues == {0, 20}
SampleAges  == {0, 2 * SecPerDay}

\* A sample as the caller builds it: used `age` seconds before the call.
SampleInputs == [todayUsage : UsageValues, age : SampleAges]

SamplesAt(inputs, t) ==
    [i \in 1..Len(inputs) |->
        [todayUsage |-> inputs[i].todayUsage, lastUsed |-> t - inputs[i].age]]

RECURSIVE SeqsUpTo(_, _)
SeqsUpTo(S, n) ==
    IF n = 0 THEN {<<>>}
    ELSE LET shorter == SeqsUpTo(S, n - 1)
         IN  shorter \cup {Append(s, x) : s \in {q \in shorter : Len(q) = n - 1}, x \in S}

\* calculateTotalUsageTime: the reduce over the samples, left to right.
RECURSIVE calculateTotalUsageTime(_, _, _)
calculateTotalUsageTime(appUsageData, t, lastUpdate) ==
    IF appUsageData = <<>> THEN 0
    ELSE LET n                   == Len(appUsageData)
             usage               == appUsageData[n]
             total               == calculateTotalUsageTime(SubSeq(appUsageData, 1, n - 1), t, lastUpdate)
             timeSinceLastUpdate == t - lastUpdate
             timeSinceLastUsed   == t - usage.lastUsed
         IN  IF timeSinceLastUsed <= timeSinceLastUpdate
             THEN total + Min(usage.todayUsage, timeSinceLastUpdate)
             ELSE total

\* calculateTurbidityChange, result in 1/FP percent
calculateTurbidityChange(totalUsageTime, timeDeltaMinutes) ==
    IF totalUsageTime > 0
    THEN LET usageMinutes == ToMinutes(totalUsageTime)
             increaseRate == TURBIDITY_INCREASE_RATE
         IN  Min(usageMinutes * increaseRate, timeDeltaMinutes * increaseRate)
    ELSE -((timeDeltaMinutes * TURBIDITY_DECREASE_RATE_NUM) \div TURBIDITY_DECREASE_RATE_DEN)

\* performWeeklyReset(currentTime), lines 222-230: the fields it assigns
performWeeklyReset(currentTime) ==
    [currentTurbidity |-> AQUARIUM_WATER_QUALITY * FP,
     lastResetTime    |-> getLastSunday(currentTime),
     lastUpdateTime   |-> currentTime]

getTurbidityLevelInclusive(turbidity) ==
    IF turbidity <= CLEAN_THRESHOLD * FP THEN "clean"
    ELSE IF turbidity <= MODERATE_THRESHOLD * FP THEN "moderate"
    ELSE IF turbidity <= DIRTY_THRESHOLD * FP THEN "dirty"
    ELSE "very_dirty"

\* getTurbidityLevel(turbidity), lines 258-268
getTurbidityLevel(turbidity) ==
    IF turbidity < CLEAN_THRESHOLD * FP THEN "clean"
    ELSE IF turbidity < MODERATE_THRESHOLD * FP THEN "moderate"
    ELSE IF turbidity < DIRTY_THRESHOLD * FP THEN "dirty"
    ELSE "very_dirty"

\* isHarmfulToFish(turbidity), lines 273-275
isHarmfulToFish(turbidity) == turbidity >= MODERATE_THRESHOLD * FP

\* calculateTimeUntilDanger(), lines 280-290, in seconds
calculateTimeUntilDanger(turbidity) ==
    IF turbidity >= DIRTY_THRESHOLD * FP THEN 0
    ELSE LET remainingTurbidity == DIRTY_THRESHOLD * FP - turbidity
         IN  Max(0, (remainingTurbidity * SecPerMinute) \div (TURBIDITY_INCREASE_RATE * FP))

\* Math.round(turbidity * 100) / 100, in hundredths of a percent
RoundToHundredths(turbidity) == (2 * 100 * turbidity + FP) \div (2 * FP)

\* getCurrentWaterQuality(), lines 239-253, of a manager whose
\* currentTurbidity is `turbidity`
getCurrentWaterQuality(turbidity) ==
    [turbidity       |-> RoundToHundredths(turbidity),
     level           |-> getTurbidityLevel(turbidity),
     isHarmful       |-> isHarmfulToFish(turbidity),
     timeUntilDanger |-> calculateTimeUntilDanger(turbidity),
     lastResetTime   |-> lastResetTime,
     nextResetTime   |-> getNextSunday(now)]

\* An observer field that holds no callback
NoCallback == "null"

\* notifyStateChange(), lines 337-342: the invocation it makes, if any
WqNotify(by) ==
    IF wqMon.onStateChange = NoCallback THEN <<>>
    ELSE <<[by       |-> by,
            service  |-> "wq",
            callback |-> wqMon.onStateChange,
            state    |-> getCurrentWaterQuality(currentTurbidity)]>>

NoWqOp == [op |-> "none"]

InitWQ ==
    /\ now \in ClockValues
    /\ currentTurbidity = AQUARIUM_WATER_QUALITY * FP
    /\ lastUpdateTime = now
    /\ lastResetTime = getLastSunday(now)
    /\ wqOp = NoWqOp

\* The device clock moves: forward, or back (a clock correction).
ClockMoves(t) ==
    /\ t \in ClockValues
    /\ t # now
    /\ now' = t
    /\ UNCHANGED <<currentTurbidity, lastUpdateTime, lastResetTime, wqOp>>
    /\ UNCHANGED <<fishVars, storeVars, calcVars>>
    /\ UNCHANGED <<monVars, notified, motion, restVars>>

UpdateTurbidityNoSkewGuard(inputs) ==
    LET appUsageData     == SamplesAt(inputs, now)
        nextResetTime    == getNextSunday(lastResetTime)
        resetDue         == now >= nextResetTime
        turbidity1       == IF resetDue THEN AQUARIUM_WATER_QUALITY * FP ELSE currentTurbidity
        reset1           == IF resetDue THEN getLastSunday(now) ELSE lastResetTime
        update1          == IF resetDue THEN now ELSE lastUpdateTime
        timeDelta      == now - update1
        timeDeltaMinutes == ToMinutes(timeDelta)
        totalUsageTime   == calculateTotalUsageTime(appUsageData, now, update1)
        turbidityChange  == calculateTurbidityChange(totalUsageTime, timeDeltaMinutes)
        returnsEarly     == timeDelta = 0
    IN  /\ lastResetTime' = reset1
        /\ IF returnsEarly
           THEN /\ currentTurbidity' = turbidity1
                /\ lastUpdateTime' = update1
           ELSE /\ currentTurbidity' = clamp(turbidity1 + turbidityChange,
                                              MIN_TURBIDITY * FP, MAX_TURBIDITY * FP)
                /\ lastUpdateTime' = now
        /\ wqOp' = [op             |-> "updateTurbidity",
                    tickTime       |-> now,
                    oldTurbidity   |-> currentTurbidity,
                    oldResetTime   |-> lastResetTime,
                    resetDue       |-> resetDue,
                    timeDelta    |-> timeDelta,
                    totalUsageTime |-> IF returnsEarly THEN 0 ELSE totalUsageTime,
                    threw          |-> ~returnsEarly]
        /\ UNCHANGED now
        /\ UNCHANGED <<fishVars, storeVars, calcVars>>
        /\ UNCHANGED <<monVars, motion, restVars>>
        /\ notified' = IF resetDue THEN WqNotify("updateTurbidity")' ELSE <<>>

(***************************************************************************)
(* updateTurbidity(appUsageData), lines 125-161.                           *)
(*   checkWeeklyReset(now) first; performWeeklyReset sets lastUpdateTime   *)
(*   to now, so the elapsed time of the same call is then 0 and the call   *)
(*   returns.  Line 157 calls logger.debug, which createLogger does not    *)
(*   provide (info / warn / error only): the call throws a TypeError after *)
(*   the assignments of lines 149-155 and before notifyStateChange.        *)
(***************************************************************************)
UpdateTurbidity(inputs) ==
    LET appUsageData     == SamplesAt(inputs, now)
        nextResetTime    == getNextSunday(lastResetTime)
        resetDue         == now >= nextResetTime
        turbidity1       == IF resetDue THEN AQUARIUM_WATER_QUALITY * FP ELSE currentTurbidity
        reset1           == IF resetDue THEN getLastSunday(now) ELSE lastResetTime
        update1          == IF resetDue THEN now ELSE lastUpdateTime
        timeDelta      == now - update1
        timeDeltaMinutes == ToMinutes(timeDelta)
        totalUsageTime   == calculateTotalUsageTime(appUsageData, now, update1)
        turbidityChange  == calculateTurbidityChange(totalUsageTime, timeDeltaMinutes)
        returnsEarly     == timeDelta <= 0
    IN  /\ lastResetTime' = reset1
        /\ IF returnsEarly
           THEN /\ currentTurbidity' = turbidity1
                /\ lastUpdateTime' = update1
           ELSE /\ currentTurbidity' = clamp(turbidity1 + turbidityChange,
                                              MIN_TURBIDITY * FP, MAX_TURBIDITY * FP)
                /\ lastUpdateTime' = now
        /\ wqOp' = [op             |-> "updateTurbidity",
                    tickTime       |-> now,
                    oldTurbidity   |-> currentTurbidity,
                    oldResetTime   |-> lastResetTime,
                    resetDue       |-> resetDue,
                    timeDelta    |-> timeDelta,
                    totalUsageTime |-> IF returnsEarly THEN 0 ELSE totalUsageTime,
                    threw          |-> ~returnsEarly]
        /\ UNCHANGED now
        /\ UNCHANGED <<fishVars, storeVars, calcVars>>
        /\ UNCHANGED <<monVars, motion, restVars>>
        /\ notified' = IF resetDue THEN WqNotify("updateTurbidity")' ELSE <<>>

\* setTurbidity(turbidity), lines 363-371
SetTurbidity(turbidity) ==
    /\ currentTurbidity' = clamp(turbidity, MIN_TURBIDITY * FP, MAX_TURBIDITY * FP)
    /\ wqOp' = [op |-> "setTurbidity", tickTime |-> now, oldTurbidity |-> currentTurbidity,
                oldResetTime |-> lastResetTime, arg |-> turbidity]
    /\ UNCHANGED <<now, lastUpdateTime, lastResetTime>>
    /\ UNCHANGED <<fishVars, storeVars, calcVars>>
    /\ UNCHANGED <<monVars, motion, restVars>>
    /\ notified' = WqNotify("setTurbidity")'

\* performManualWaterChange(), lines 351-358
PerformManualWaterChange ==
    /\ currentTurbidity' = AQUARIUM_WATER_QUALITY * FP
    /\ lastUpdateTime' = now
    /\ wqOp' = [op |-> "performManualWaterChange", tickTime |-> now,
                oldTurbidity |-> currentTurbidity, oldResetTime |-> lastResetTime]
    /\ UNCHANGED <<now, lastResetTime>>
    /\ UNCHANGED <<fishVars, storeVars, calcVars>>
    /\ UNCHANGED <<monVars, motion, restVars>>
    /\ notified' = WqNotify("performManualWaterChange")'

\* Arguments of setTurbidity, in percent: below, inside and above [0, 100].
TurbidityArgs == {-10, 0, 45, 150}

NextWQ ==
    \/ \E t \in ClockValues : ClockMoves(t)
    \/ \E inputs \in SeqsUpTo(SampleInputs, MaxSamples) : UpdateTurbidity(inputs)
    \/ \E turbidity \in TurbidityArgs : SetTurbidity(turbidity * FP)
    \/ PerformManualWaterChange

(***************************************************************************)
(* FishBehaviorManager (src/application/services/FishBehaviorManager.ts)   *)
(*                                                                         *)
(* speed is kept in 1/SpeedDen; the multipliers, distress and opacity      *)
(* levels are kept in tenths.  Every product the code forms is exact in    *)
(* these units for integer health.                                         *)
(***************************************************************************)
SpeedDen   == 5000
BASE_SPEED == 1 * SpeedDen

WaterLevels   == {"clean", "moderate", "dirty", "very_dirty"}
Personalities == {"active", "calm", "playful", "shy", "curious"}

\* FISH_BEHAVIOR_CONSTANTS, in tenths
SPEED_MULTIPLIERS == [clean |-> 12, moderate |-> 10, dirty |-> 6, very_dirty |-> 3]
DISTRESS_LEVELS   == [clean |-> 0,  moderate |-> 3,  dirty |-> 7, very_dirty |-> 10]
OPACITY_LEVELS    == [clean |-> 10, moderate |-> 9,  dirty |-> 7, very_dirty |-> 4]

\* value * (tenths / 10)
TimesTenths(value, tenths) == (value * tenths) \div 10

NoPet == [isNull |-> TRUE]

createInitialState ==
    [speed           |-> BASE_SPEED,
     opacity         |-> 10,
     isDistressed    |-> FALSE,
     distressLevel   |-> 0,
     movementPattern |-> "normal",
     isDying         |-> FALSE,
     isDead          |-> FALSE]

updateSpeedFromWaterQualityCompounding(state, waterLevel) ==
    [state EXCEPT !.speed = TimesTenths(state.speed, SPEED_MULTIPLIERS[waterLevel])]

updateSpeedFromWaterQuality(state, waterLevel) ==
    [state EXCEPT !.speed = TimesTenths(BASE_SPEED, SPEED_MULTIPLIERS[waterLevel])]

updateDistressFromWaterQuality(state, waterLevel) ==
    LET distressLevel == DISTRESS_LEVELS[waterLevel]
    IN  [state EXCEPT !.distressLevel = distressLevel,
                      !.isDistressed  = distressLevel > 2]

updateOpacityFromWaterQuality(state, waterLevel) ==
    [state EXCEPT !.opacity = OPACITY_LEVELS[waterLevel]]

updateMovementPattern(state, waterLevel) ==
    CASE waterLevel = "clean"      -> [state EXCEPT !.movementPattern = "normal"]
      [] waterLevel = "moderate"   -> [state EXCEPT !.movementPattern = "normal"]
      [] waterLevel = "dirty"      -> [state EXCEPT !.movementPattern = "distressed"]
      [] waterLevel = "very_dirty" -> [state EXCEPT !.movementPattern = "dying",
                                                    !.isDying = TRUE]

applyPersonalityModifiers(state, personality) ==
    CASE personality = "active"  -> [state EXCEPT !.speed = TimesTenths(@, 13)]
      [] personality = "calm"    -> [state EXCEPT !.speed = TimesTenths(@, 8)]
      [] personality = "playful" -> [state EXCEPT !.speed = TimesTenths(@, 11)]
      [] personality = "shy"     -> [state EXCEPT !.speed = TimesTenths(@, 9)]
      [] personality = "curious" -> [state EXCEPT !.speed = TimesTenths(@, 10)]

updateHealthBasedBehaviorKeepsSpeed(state, p) ==
    LET s1 == IF p.health <= 0
              THEN [state EXCEPT !.isDead = TRUE, !.isDying = FALSE,
                                 !.movementPattern = "dead", !.opacity = 3]
              ELSE IF p.health <= 20
              THEN [state EXCEPT !.isDying = TRUE, !.movementPattern = "dying",
                                 !.speed = TimesTenths(@, 3)]
              ELSE IF p.health <= 50
              THEN [state EXCEPT !.speed = (@ * p.health) \div 50]
              ELSE state
    IN  applyPersonalityModifiers(s1, p.personality)

updateHealthBasedBehavior(state, p) ==
    LET s1 == IF p.health <= 0
              THEN [state EXCEPT !.isDead = TRUE, !.isDying = FALSE,
                                 !.movementPattern = "dead", !.speed = 0, !.opacity = 3]
              ELSE IF p.health <= 20
              THEN [state EXCEPT !.isDying = TRUE, !.movementPattern = "dying",
                                 !.speed = TimesTenths(@, 3)]
              ELSE IF p.health <= 50
              THEN [state EXCEPT !.speed = (@ * p.health) \div 50]
              ELSE state
    IN  applyPersonalityModifiers(s1, p.personality)

updateBehaviorAppliesWater(state, waterLevel, p) ==
    LET s1 == updateSpeedFromWaterQuality(state, waterLevel)
        s2 == updateDistressFromWaterQuality(s1, waterLevel)
        s3 == updateOpacityFromWaterQuality(s2, waterLevel)
        s4 == updateMovementPattern(s3, waterLevel)
    IN  IF p = NoPet
        THEN [s4 EXCEPT !.isDead = TRUE, !.movementPattern = "dead"]
        ELSE updateHealthBasedBehavior(s4, p)

\* updateBehavior(waterQuality, pet), lines 140-161
updateBehavior(state, waterLevel, p) ==
    IF p = NoPet
    THEN [state EXCEPT !.isDead = TRUE, !.movementPattern = "dead"]
    ELSE LET s1 == updateSpeedFromWaterQuality(state, waterLevel)
             s2 == updateDistressFromWaterQuality(s1, waterLevel)
             s3 == updateOpacityFromWaterQuality(s2, waterLevel)
             s4 == updateMovementPattern(s3, waterLevel)
         IN  updateHealthBasedBehavior(s4, p)

\* Pets handed to updateBehavior: health at and around every threshold.
FishHealthValues == {-5, 0, 20, 21, 50, 51, 100}
FishPets == [health : FishHealthValues, personality : Personalities]

\* createInitialState(), lines 118-131: position, velocity, animationPhase.
\* Coordinates are in 1/PosDen of the tank's width and height.
PosDen == 10000

createInitialMotion ==
    [position       |-> [x |-> 5000, y |-> 5000],
     velocity       |-> [x |-> 0, y |-> 0],
     animationPhase |-> 0]

\* notifyStateChange(), lines 415-419: the invocation it makes, if any
FishNotify(by) ==
    IF fishMon.onStateChange = NoCallback THEN <<>>
    ELSE <<[by       |-> by,
            service  |-> "fish",
            callback |-> fishMon.onStateChange,
            state    |-> [behavior |-> behaviorState, position |-> motion.position]]>>

NoFishOp == [op |-> "none"]

InitFish ==
    /\ behaviorState = createInitialState
    /\ motion = createInitialMotion
    /\ fishOp = NoFishOp

UpdateBehavior(waterLevel, p) ==
    /\ behaviorState' = updateBehavior(behaviorState, waterLevel, p)
    /\ fishOp' = [op       |-> "updateBehavior",
                  level    |-> waterLevel,
                  pet      |-> p,
                  wasDead  |-> behaviorState.isDead,
                  wasDying |-> behaviorState.isDying,
                  repeated |-> /\ fishOp.op = "updateBehavior"
                               /\ fishOp.level = waterLevel
                               /\ fishOp.pet = p]
    /\ UNCHANGED <<wqVars, storeVars, calcVars>>
    /\ UNCHANGED <<monVars, motion, restVars>>
    /\ notified' = FishNotify("updateBehavior")'

\* resetBehaviorState(), lines 451-455
ResetBehaviorState ==
    /\ behaviorState' = createInitialState
    /\ fishOp' = [op |-> "resetBehaviorState"]
    /\ motion' = createInitialMotion
    /\ UNCHANGED <<wqVars, storeVars, calcVars>>
    /\ UNCHANGED <<monVars, restVars>>
    /\ notified' = FishNotify("resetBehaviorState")'

NextFish ==
    \/ \E waterLevel \in WaterLevels, p \in FishPets \cup {NoPet} : UpdateBehavior(waterLevel, p)
    \/ ResetBehaviorState

(***************************************************************************)
(* useAppStore (src/application/store/index.ts)                            *)
(*                                                                         *)
(* A name is the sequence of its characters, so that name.trim() is        *)
(* computed.  Date.now() is an input of each action that reads it, not     *)
(* earlier than state.pet.lastUpdateTime.                                  *)
(***************************************************************************)
PET_HEALTH == 100
MAX_HEALTH == 100
MIN_HEALTH == 0
CRITICAL_HEALTH_THRESHOLD == 20
AT_RISK_HEALTH_THRESHOLD  == 50

\* determinePetStatus (petHealth.ts, lines 59-64)
determinePetStatus(health) ==
    IF health <= MIN_HEALTH THEN "dead"
    ELSE IF health <= CRITICAL_HEALTH_THRESHOLD THEN "critical"
    ELSE IF health <= AT_RISK_HEALTH_THRESHOLD THEN "at_risk"
    ELSE "alive"

\* String.prototype.trim() on a sequence of characters
RECURSIVE TrimLeft(_)
TrimLeft(name) ==
    IF name # <<>> /\ Head(name) = " " THEN TrimLeft(Tail(name)) ELSE name

RECURSIVE TrimRight(_)
TrimRight(name) ==
    IF name # <<>> /\ name[Len(name)] = " "
    THEN TrimRight(SubSeq(name, 1, Len(name) - 1))
    ELSE name

trim(name) == TrimRight(TrimLeft(name))

\* PET_CONSTANTS.MIN_NAME_LENGTH and MAX_NAME_LENGTH, as isValidPetName
\* writes them (1 and 12)
MIN_NAME_LENGTH == 1
MAX_NAME_LENGTH == 12

\* The characters /^[가-힣a-zA-Z0-9\s]*$/ accepts, among those typed here
NameCharacters == {"N", "e", "o", " "}

\* isValidPetName(name) (utils, lines 114-117)
isValidPetName(name) ==
    LET trimmed == trim(name)
    IN  /\ Len(trimmed) >= MIN_NAME_LENGTH
        /\ Len(trimmed) <= MAX_NAME_LENGTH
        /\ \A i \in 1..Len(trimmed) : trimmed[i] \in NameCharacters

\* Names typed by the user: plain, with surrounding blanks, and a blank one.
RawNames == {<<"N", "e", "o">>, <<" ", "N", "e", "o", " ">>, <<" ">>}
StorePersonalities == {"active", "shy"}
StoreHealthArgs    == {-50, 0, 20, 50, 51, 150}
PetStatuses        == {"alive", "at_risk", "critical", "dead"}
DeathReasons       == {"neglect"}
DeathCauses        == {"YouTube"}
StoreTimes         == {0, 1}

NoStoreOp == [op |-> "none"]

InitStore ==
    /\ pet = [current |-> NoPet, isMonitoring |-> FALSE, lastUpdateTime |-> 0]
    /\ memorial = [deadPets |-> <<>>, usedNames |-> <<>>]
    /\ game = [stats |-> [totalPetsRaised |-> 0, totalPetDeaths |-> 0, currentStreak |-> 0],
               waterQuality |-> AQUARIUM_WATER_QUALITY]
    /\ storeOp = NoStoreOp

\* createPet(name, personality), lines 103-127
CreatePet(name, personality, t) ==
    /\ game.stats.totalPetsRaised < MaxPets
    /\ t >= pet.lastUpdateTime
    /\ LET newPet == [id          |-> t,       \* `pet_${Date.now()}`
                      name        |-> trim(name),
                      personality |-> personality,
                      createdAt   |-> t,
                      health      |-> PET_HEALTH,
                      status      |-> "alive"]
       IN  pet' = [current |-> newPet, isMonitoring |-> TRUE, lastUpdateTime |-> t]
    /\ memorial' = [memorial EXCEPT !.usedNames = Append(@, trim(name))]
    /\ game' = [game EXCEPT !.stats.totalPetsRaised = @ + 1]
    /\ storeOp' = [op |-> "createPet", name |-> name]
    /\ UNCHANGED <<wqVars, fishVars, calcVars>>
    /\ UNCHANGED <<monVars, notified, motion, restVars>>

updatePetHealthClampNoMin(health) == Max(0, health)

updatePetHealthClamp(health) == Max(0, Min(100, health))

\* updatePetHealth(health), lines 129-144
UpdatePetHealth(health, t) ==
    /\ t >= pet.lastUpdateTime
    /\ LET clampedHealth == updatePetHealthClamp(health)
           changes       == pet.current # NoPet /\ pet.current.health # clampedHealth
       IN  /\ IF changes
              THEN /\ pet' = [pet EXCEPT !.current.health = clampedHealth,
                                         !.lastUpdateTime = t]
                   /\ game' = [game EXCEPT !.waterQuality = clampedHealth]
              ELSE UNCHANGED <<pet, game>>
           /\ storeOp' = [op |-> "updatePetHealth", arg |-> health, changed |-> changes]
    /\ UNCHANGED memorial
    /\ UNCHANGED <<wqVars, fishVars, calcVars>>
    /\ UNCHANGED <<monVars, notified, motion, restVars>>

\* updatePetStatus(status), lines 146-153
UpdatePetStatus(status, t) ==
    /\ t >= pet.lastUpdateTime
    /\ IF pet.current # NoPet
       THEN pet' = [pet EXCEPT !.current.status = status, !.lastUpdateTime = t]
       ELSE UNCHANGED pet
    /\ storeOp' = [op |-> "updatePetStatus"]
    /\ UNCHANGED <<memorial, game>>
    /\ UNCHANGED <<wqVars, fishVars, calcVars>>
    /\ UNCHANGED <<monVars, notified, motion, restVars>>

KillPetReplacesRecords(causeOfDeath, deathReason, t) ==
    /\ t >= pet.lastUpdateTime
    /\ IF pet.current # NoPet
       THEN LET deadPet == [id            |-> pet.current.id,
                            name          |-> pet.current.name,
                            personality   |-> pet.current.personality,
                            createdAt     |-> pet.current.createdAt,
                            diedAt        |-> t,
                            causeOfDeath  |-> causeOfDeath,
                            totalLifetime |-> t - pet.current.createdAt,
                            deathReason   |-> deathReason]
            IN  /\ memorial' = [memorial EXCEPT !.deadPets = <<deadPet>>]
                /\ pet' = [pet EXCEPT !.current = NoPet, !.isMonitoring = FALSE]
                /\ game' = [game EXCEPT !.stats.totalPetDeaths = @ + 1,
                                        !.stats.currentStreak = 0]
       ELSE UNCHANGED <<pet, memorial, game>>
    /\ storeOp' = [op |-> "killPet", hadPet |-> pet.current # NoPet]
    /\ UNCHANGED <<wqVars, fishVars, calcVars>>
    /\ UNCHANGED <<monVars, notified, motion, restVars>>

\* killPet(causeOfDeath, deathReason), lines 155-181
KillPet(causeOfDeath, deathReason, t) ==
    /\ t >= pet.lastUpdateTime
    /\ IF pet.current # NoPet
       THEN LET deadPet == [id            |-> pet.current.id,
                            name          |-> pet.current.name,
                            personality   |-> pet.current.personality,
                            createdAt     |-> pet.current.createdAt,
                            diedAt        |-> t,
                            causeOfDeath  |-> causeOfDeath,
                            totalLifetime |-> t - pet.current.createdAt,
                            deathReason   |-> deathReason]
            IN  /\ memorial' = [memorial EXCEPT !.deadPets = Append(@, deadPet)]
                /\ pet' = [pet EXCEPT !.current = NoPet, !.isMonitoring = FALSE]
                /\ game' = [game EXCEPT !.stats.totalPetDeaths = @ + 1,
                                        !.stats.currentStreak = 0]
       ELSE UNCHANGED <<pet, memorial, game>>
    /\ storeOp' = [op |-> "killPet", hadPet |-> pet.current # NoPet]
    /\ UNCHANGED <<wqVars, fishVars, calcVars>>
    /\ UNCHANGED <<monVars, notified, motion, restVars>>

NextStore ==
    \/ \E name \in RawNames, personality \in StorePersonalities, t \in StoreTimes :
          CreatePet(name, personality, t)
    \/ \E health \in StoreHealthArgs, t \in StoreTimes : UpdatePetHealth(health, t)
    \/ \E status \in PetStatuses, t \in StoreTimes : UpdatePetStatus(status, t)
    \/ \E causeOfDeath \in DeathCauses, deathReason \in DeathReasons, t \in StoreTimes :
          KillPet(causeOfDeath, deathReason, t)

(***************************************************************************)
(* petHealth.ts (src/domain/calculations/petHealth.ts)                     *)
(*                                                                         *)
(* The results are JavaScript numbers; they are computed here as rationals *)
(* [n, d] in lowest terms with d > 0, which is exact.                      *)
(***************************************************************************)
RECURSIVE GCD(_, _)
GCD(a, b) == IF b = 0 THEN a ELSE GCD(b, a % b)

Abs(a) == IF a < 0 THEN -a ELSE a

Rat(n, d) ==
    LET g == GCD(Abs(n), Abs(d))
        s == IF d < 0 THEN -1 ELSE 1
    IN  [n |-> s * (n \div g), d |-> s * (d \div g)]

RatInt(i)    == [n |-> i, d |-> 1]
RatLE(a, b)  == a.n * b.d <= b.n * a.d
RatMin(a, b) == IF RatLE(a, b) THEN a ELSE b
RatMul(a, b) == Rat(a.n * b.n, a.d * b.d)
RatAdd(a, b) == Rat(a.n * b.d + b.n * a.d, a.d * b.d)

\* PET_CONSTANTS and USAGE_LIMITS
HEALTH_DECAY_RATE   == 1
DEFAULT_DAILY_LIMIT == 30 * 60 * 1000

calculateHealthDecayFromUsageUncapped(usageTime, timeLimit) ==
    IF usageTime <= 0 THEN RatInt(0)
    ELSE IF timeLimit <= 0 THEN RatInt(MAX_HEALTH)
    ELSE RatMul(RatInt(HEALTH_DECAY_RATE), Rat(usageTime, timeLimit))

\* calculateHealthDecayFromUsage(usageTime, timeLimit), lines 13-24
calculateHealthDecayFromUsage(usageTime, timeLimit) ==
    IF usageTime <= 0 THEN RatInt(0)
    ELSE IF timeLimit <= 0 THEN RatInt(MAX_HEALTH)
    ELSE LET usageRatio == Rat(usageTime, timeLimit)
             decayRate  == RatMin(usageRatio, RatInt(2))
         IN  RatMul(RatInt(HEALTH_DECAY_RATE), decayRate)

\* restrictions[usage.appId] || USAGE_LIMITS.DEFAULT_DAILY_LIMIT:
\* undefined (no entry) and 0 are both falsy.
limitOrDefault(restrictions, appId) ==
    IF appId \in DOMAIN restrictions /\ restrictions[appId] # 0
    THEN restrictions[appId]
    ELSE DEFAULT_DAILY_LIMIT

\* calculateTotalUsageDamage(appUsages, restrictions), lines 69-78
RECURSIVE calculateTotalUsageDamage(_, _)
calculateTotalUsageDamage(appUsages, restrictions) ==
    IF appUsages = <<>> THEN RatInt(0)
    ELSE LET n           == Len(appUsages)
             usage       == appUsages[n]
             totalDamage == calculateTotalUsageDamage(SubSeq(appUsages, 1, n - 1), restrictions)
             limit       == limitOrDefault(restrictions, usage.appId)
             damage      == calculateHealthDecayFromUsage(usage.dailyUsage, limit)
         IN  RatAdd(totalDamage, damage)

\* clamp (utils, lines 133-135) on rationals
RatMax(a, b) == IF RatLE(a, b) THEN b ELSE a
RatNeg(a)    == [n |-> -a.n, d |-> a.d]
RatSub(a, b) == RatAdd(a, RatNeg(b))

clampRatNoLower(min, max, value) == RatMin(value, max)

clampRat(min, max, value) == RatMin(RatMax(value, min), max)

\* PET_CONSTANTS.HEALTH_RESTORE_RATE is 0.5
HEALTH_RESTORE_RATE == Rat(1, 2)

calculateNaturalHealthDecayFullRate(elapsedMinutes) ==
    RatMul(RatInt(elapsedMinutes), RatInt(HEALTH_DECAY_RATE))

\* calculateNaturalHealthDecay(elapsedMinutes), lines 29-34:
\* elapsedMinutes * baseDecayRate * 0.1
calculateNaturalHealthDecay(elapsedMinutes) ==
    RatMul(RatMul(RatInt(elapsedMinutes), RatInt(HEALTH_DECAY_RATE)), Rat(1, 10))

\* calculateHealthRestoration(offlineMinutes), lines 39-44
calculateHealthRestoration(offlineMinutes) ==
    RatMul(RatInt(offlineMinutes), HEALTH_RESTORE_RATE)

\* calculateNewHealth(currentHealth, healthChange), lines 49-54
calculateNewHealth(currentHealth, healthChange) ==
    clampRat(RatInt(MIN_HEALTH), RatInt(MAX_HEALTH), RatAdd(currentHealth, healthChange))

determinePetStatusRatStrict(health) ==
    IF RatLE(health, RatInt(MIN_HEALTH)) THEN "dead"
    ELSE IF ~RatLE(RatInt(CRITICAL_HEALTH_THRESHOLD), health) THEN "critical"
    ELSE IF RatLE(health, RatInt(AT_RISK_HEALTH_THRESHOLD)) THEN "at_risk"
    ELSE "alive"

\* determinePetStatus (lines 59-64) applied to a health that need not be whole
determinePetStatusRat(health) ==
    IF RatLE(health, RatInt(MIN_HEALTH)) THEN "dead"
    ELSE IF RatLE(health, RatInt(CRITICAL_HEALTH_THRESHOLD)) THEN "critical"
    ELSE IF RatLE(health, RatInt(AT_RISK_HEALTH_THRESHOLD)) THEN "at_risk"
    ELSE "alive"

\* percentage(total, value) (utils, lines 150-152): (value / total) * 100
percentage(total, value) ==
    IF total = RatInt(0) THEN RatInt(0)
    ELSE RatMul(Rat(value.n * total.d, value.d * total.n), RatInt(100))

\* calculateRiskPercentage(health), lines 83-85
calculateRiskPercentage(health) ==
    percentage(RatInt(MAX_HEALTH), RatSub(RatInt(MAX_HEALTH), health))

\* calculateSurvivalTime(currentHealth, currentDecayRate), lines 90-96;
\* "Infinity" stands for the JavaScript value
calculateSurvivalTime(currentHealth, currentDecayRate) ==
    IF currentDecayRate <= 0 THEN "Infinity"
    ELSE RatMax(RatInt(0), RatMul(currentHealth, Rat(1, currentDecayRate)))

\* calculateWaterTurbidity(petHealth), lines 101-103
calculateWaterTurbidity(petHealth) == RatSub(RatInt(100), petHealth)

\* updatePetHealthComplex(currentHealth, appUsages, restrictions,
\* elapsedMinutes, offlineMinutes), lines 108-137
updatePetHealthComplex(currentHealth, appUsages, restrictions, elapsedMinutes, offlineMinutes) ==
    LET usageDamage == calculateTotalUsageDamage(appUsages, restrictions)
        totalDamage == RatAdd(usageDamage, calculateNaturalHealthDecay(elapsedMinutes))
        netDamage   == RatSub(totalDamage, calculateHealthRestoration(offlineMinutes))
        newHealth   == calculateNewHealth(RatInt(currentHealth), RatNeg(netDamage))
    IN  [health         |-> newHealth,
         status         |-> determinePetStatusRat(newHealth),
         riskPercentage |-> calculateRiskPercentage(newHealth),
         waterTurbidity |-> calculateWaterTurbidity(newHealth),
         survivalTime   |-> calculateSurvivalTime(newHealth, HEALTH_DECAY_RATE)]

\* Inputs of the calculations, in ms: usage at 1/3, 1/2, 1, 3/2, 2, 5 and 10
\* times a 30-minute limit, and limits below, at and above zero.
UsageTimes == {m * MsPerMinute : m \in {-10, 0, 10, 15, 30, 45, 60, 150, 300}}
TimeLimits == {m * MsPerMinute : m \in {-30, 0, 15, 30, 90}}

AppIds         == {"com.video", "com.chat"}
DailyUsages    == {m * MsPerMinute : m \in {0, 10, 60}}
DailyLimits    == {m * MsPerMinute : m \in {-30, 0, 15, 30}}
AppUsages      == [appId : AppIds, dailyUsage : DailyUsages]
RestrictionMaps == UNION {[S -> DailyLimits] : S \in SUBSET AppIds}

\* updatePetHealthComplex is given usages of 10, 60 and 300 minutes.
ComplexUsages == [appId : AppIds, dailyUsage : {m * MsPerMinute : m \in {10, 60, 300}}]

\* Healths, health changes and minutes given to the calculations; the
\* changes reach 10,000 either way and healths come in halves.
CurrentHealths == {0, 50, 100}
ElapsedMinutes == {0, 10, 1200}
OfflineMinutes == {0, 30}
HealthInputs   == {Rat(k, 2) : k \in (0..200) \cup {-20, 250}}
HealthChanges  == {Rat(k, 2) : k \in {-20000, -41, -1, 0, 1, 41, 20000}}

\* A calculation is applied once to inputs drawn from the sets above.
InitCalc == calc = [fn |-> "none"]

CalcHealthDecayFromUsage ==
    /\ calc.fn = "none"
    /\ \E usageTime \in UsageTimes, timeLimit \in TimeLimits :
          calc' = [fn        |-> "calculateHealthDecayFromUsage",
                   usageTime |-> usageTime,
                   timeLimit |-> timeLimit,
                   result    |-> calculateHealthDecayFromUsage(usageTime, timeLimit)]
    /\ UNCHANGED <<wqVars, fishVars, storeVars>>
    /\ UNCHANGED <<monVars, notified, motion, restVars>>

CalcTotalUsageDamage ==
    /\ calc.fn = "none"
    /\ \E appUsages \in SeqsUpTo(AppUsages, MaxUsages), restrictions \in RestrictionMaps :
          calc' = [fn           |-> "calculateTotalUsageDamage",
                   appUsages    |-> appUsages,
                   restrictions |-> restrictions,
                   result       |-> calculateTotalUsageDamage(appUsages, restrictions)]
    /\ UNCHANGED <<wqVars, fishVars, storeVars>>
    /\ UNCHANGED <<monVars, notified, motion, restVars>>

CalcUpdatePetHealthComplex ==
    /\ calc.fn = "none"
    /\ \E currentHealth \in CurrentHealths,
          appUsages \in SeqsUpTo(ComplexUsages, MaxUsages),
          restrictions \in RestrictionMaps,
          elapsedMinutes \in ElapsedMinutes, offlineMinutes \in OfflineMinutes :
          calc' = [fn             |-> "updatePetHealthComplex",
                   currentHealth  |-> currentHealth,
                   appUsages      |-> appUsages,
                   restrictions   |-> restrictions,
                   elapsedMinutes |-> elapsedMinutes,
                   offlineMinutes |-> offlineMinutes,
                   result         |-> updatePetHealthComplex(currentHealth, appUsages,
                                          restrictions, elapsedMinutes, offlineMinutes)]
    /\ UNCHANGED <<wqVars, fishVars, storeVars>>
    /\ UNCHANGED <<monVars, notified, motion, restVars>>

CalcNewHealth ==
    /\ calc.fn = "none"
    /\ \E currentHealth \in HealthInputs, healthChange \in HealthChanges :
          calc' = [fn            |-> "calculateNewHealth",
                   currentHealth |-> currentHealth,
                   healthChange  |-> healthChange,
                   result        |-> calculateNewHealth(currentHealth, healthChange)]
    /\ UNCHANGED <<wqVars, fishVars, storeVars>>
    /\ UNCHANGED <<monVars, notified, motion, restVars>>

CalcDeterminePetStatus ==
    /\ calc.fn = "none"
    /\ \E health \in HealthInputs :
          calc' = [fn     |-> "determinePetStatus",
                   health |-> health,
                   result |-> determinePetStatusRat(health)]
    /\ UNCHANGED <<wqVars, fishVars, storeVars>>
    /\ UNCHANGED <<monVars, notified, motion, restVars>>

\* The snapshot of a manager holding each turbidity from 0 to 100 %.
TurbidityInputs == 0..(MAX_TURBIDITY * FP)

CalcCurrentWaterQuality ==
    /\ calc.fn = "none"
    /\ \E turbidity \in TurbidityInputs :
          calc' = [fn        |-> "getCurrentWaterQuality",
                   turbidity |-> turbidity,
                   result    |-> getCurrentWaterQuality(turbidity)]
    /\ UNCHANGED <<wqVars, fishVars, storeVars>>
    /\ UNCHANGED <<monVars, notified, motion, restVars>>

(***************************************************************************)
(* AppUsageService.checkTimeLimit (src/unnamed/part_005, lines 333-358)    *)
(***************************************************************************)
\* The JavaScript quotient a / b of two integers: a rational, or Infinity,
\* -Infinity or NaN when b is 0
Quotient(a, b) ==
    IF b # 0 THEN [kind |-> "finite", value |-> Rat(a, b)]
    ELSE IF a > 0 THEN [kind |-> "Infinity"]
    ELSE IF a < 0 THEN [kind |-> "-Infinity"]
    ELSE [kind |-> "NaN"]

\* q >= r for a JavaScript number q and a rational r
AtLeast(q, r) ==
    CASE q.kind = "finite"    -> RatLE(r, q.value)
      [] q.kind = "Infinity"  -> TRUE
      [] q.kind = "-Infinity" -> FALSE
      [] q.kind = "NaN"       -> FALSE

\* restrictedApps.find(app => app.packageName === packageName): the index of
\* the first match, 0 when there is none
findRestriction(restrictedApps, packageName) ==
    IF \E i \in DOMAIN restrictedApps : restrictedApps[i].packageName = packageName
    THEN CHOOSE i \in DOMAIN restrictedApps :
            /\ restrictedApps[i].packageName = packageName
            /\ \A j \in 1..(i - 1) : restrictedApps[j].packageName # packageName
    ELSE 0

classifyUsageStrict(restrictedApps, usage) ==
    LET i == findRestriction(restrictedApps, usage.packageName)
    IN  IF i = 0 THEN "none"
        ELSE LET usageRatio == Quotient(usage.todayUsage, restrictedApps[i].dailyLimit)
             IN  IF AtLeast(usageRatio, RatInt(1)) /\ usageRatio # [kind |-> "finite", value |-> RatInt(1)]
                 THEN "exceeded"
                 ELSE IF AtLeast(usageRatio, Rat(8, 10)) THEN "approaching"
                 ELSE "none"

\* one iteration of the loop, lines 340-355: the list the sample is pushed to
classifyUsage(restrictedApps, usage) ==
    LET i == findRestriction(restrictedApps, usage.packageName)
    IN  IF i = 0 THEN "none"
        ELSE LET usageRatio == Quotient(usage.todayUsage, restrictedApps[i].dailyLimit)
             IN  IF AtLeast(usageRatio, RatInt(1)) THEN "exceeded"
                 ELSE IF AtLeast(usageRatio, Rat(8, 10)) THEN "approaching"
                 ELSE "none"

\* the samples of usageData pushed to one list, in their order
RECURSIVE pushedTo(_, _, _)
pushedTo(list, restrictedApps, usageData) ==
    IF usageData = <<>> THEN <<>>
    ELSE (IF classifyUsage(restrictedApps, Head(usageData)) = list
          THEN <<Head(usageData)>> ELSE <<>>)
         \o pushedTo(list, restrictedApps, Tail(usageData))

\* checkTimeLimit(usageData), lines 333-358
checkTimeLimit(restrictedApps, usageData) ==
    [exceeded    |-> pushedTo("exceeded", restrictedApps, usageData),
     approaching |-> pushedTo("approaching", restrictedApps, usageData)]

\* Samples below, at and above 80 % and 100 % of a limit of 60, and the
\* restriction lists of the service: none, one app, a limit of zero, a
\* negative limit, and two restrictions of the same package.
LimitSamples == [packageName : AppIds, todayUsage : {0, 47, 48, 59, 60, 61}]
LimitRestrictions ==
    {<<>>} \cup {<<[packageName |-> "com.video", dailyLimit |-> l]>> : l \in {-60, 0, 60}}
           \cup {<<[packageName |-> "com.video", dailyLimit |-> 60],
                    [packageName |-> "com.video", dailyLimit |-> 30]>>}

CalcCheckTimeLimit ==
    /\ calc.fn = "none"
    /\ \E usageData \in SeqsUpTo(LimitSamples, MaxUsages), restrictedApps \in LimitRestrictions :
          calc' = [fn             |-> "checkTimeLimit",
                   usageData      |-> usageData,
                   restrictedApps |-> restrictedApps,
                   result         |-> checkTimeLimit(restrictedApps, usageData)]
    /\ UNCHANGED <<wqVars, fishVars, storeVars>>
    /\ UNCHANGED <<monVars, notified, motion, restVars>>

NextCalc ==
    \/ CalcCurrentWaterQuality
    \/ CalcHealthDecayFromUsage
    \/ CalcTotalUsageDamage
    \/ CalcUpdatePetHealthComplex
    \/ CalcNewHealth
    \/ CalcDeterminePetStatus
    \/ CalcCheckTimeLimit

(***************************************************************************)
(* Monitoring: startMonitoring / stopMonitoring of WaterQualityManager     *)
(* (part_006, lines 299-332), startBehaviorMonitoring /                    *)
(* stopBehaviorMonitoring of FishBehaviorManager (lines 367-410) and       *)
(* startMonitoring / stopMonitoring / updateUsageStats of AppUsageService  *)
(* (part_005, lines 267-324).                                              *)
(*                                                                         *)
(* `timers` is the runtime's set of live interval timers; a manager's      *)
(* timer field holds the handle setInterval returned.  A callback passed   *)
(* to a start call is one of Callbacks.                                    *)
(***************************************************************************)
Callbacks == {"A", "B"}
NoTimer   == [owner |-> "null", n |-> 0]

\* setInterval: a handle that no live timer has, named after the field that
\* will own it
NewTimer(live, owner) ==
    [owner |-> owner,
     n     |-> CHOOSE n \in 1..(Cardinality(live) + 1) :
                  /\ [owner |-> owner, n |-> n] \notin live
                  /\ \A m \in 1..(n - 1) : [owner |-> owner, n |-> m] \in live]

setInterval(live, owner) == live \cup {NewTimer(live, owner)}

\* clearInterval(handle)
clearInterval(live, handle) == live \ {handle}

\* WaterQualityManager, FishBehaviorManager and AppUsageService are separate
\* objects: none holds a reference to another or reads another's fields, and
\* a timer handle is known to the object that created it only.  A behaviour
\* of SpecMon therefore exercises one of them, the driven one.
Services  == {"wq", "fish", "usage"}
NoService == "none"
\* The package names of the restrictions given to AppUsageService
RestrictionLists == {<<>>, <<"com.video">>}

\* The instants at which the clock is read while monitoring: the start, ten
\* seconds later, and the next Sunday midnight.
MonitorClockValues == {0, 10, DaysPerWeek * SecPerDay}

NoMonOp == [op |-> "none"]

InitMon ==
    /\ wqMon = [isActive |-> FALSE, updateTimer |-> NoTimer, onStateChange |-> NoCallback]
    /\ fishMon = [isActive |-> FALSE, updateTimer |-> NoTimer, animationTimer |-> NoTimer,
                  onStateChange |-> NoCallback]
    /\ usageMon = [isMonitoring |-> FALSE, monitoringInterval |-> NoTimer,
                   onUsageUpdate |-> NoCallback, restrictedApps |-> <<>>]
    /\ timers = {}
    /\ fetches = EmptyBag
    /\ monOp = NoMonOp
    /\ notified = <<>>

\* ---- WaterQualityManager ----

\* stopMonitoring(), lines 322-332: the timers it leaves alive
WqTimersAfterStop ==
    IF wqMon.updateTimer # NoTimer THEN clearInterval(timers, wqMon.updateTimer) ELSE timers

WqStopMonitoringKeepsObserver ==
    /\ driven = "wq"
    /\ wqMon' = [isActive |-> FALSE, updateTimer |-> NoTimer,
                 onStateChange |-> wqMon.onStateChange]
    /\ timers' = WqTimersAfterStop
    /\ monOp' = [op |-> "wq.stopMonitoring", wasActive |-> wqMon.isActive]
    /\ notified' = <<>>
    /\ UNCHANGED <<fishMon, usageMon, fetches, motion>>
    /\ UNCHANGED <<wqVars, fishVars, storeVars, calcVars, restVars>>

\* stopMonitoring(), lines 322-332
WqStopMonitoring ==
    /\ driven = "wq"
    /\ wqMon' = [isActive |-> FALSE, updateTimer |-> NoTimer, onStateChange |-> NoCallback]
    /\ timers' = WqTimersAfterStop
    /\ monOp' = [op |-> "wq.stopMonitoring", wasActive |-> wqMon.isActive]
    /\ notified' = <<>>
    /\ UNCHANGED <<fishMon, usageMon, fetches, motion>>
    /\ UNCHANGED <<wqVars, fishVars, storeVars, calcVars, restVars>>

\* startMonitoring(onStateChange), lines 299-317
WqStartMonitoring(onStateChange) ==
    LET live == IF wqMon.isActive THEN WqTimersAfterStop ELSE timers
    IN  /\ driven = "wq"
        /\ wqMon' = [isActive |-> TRUE, updateTimer |-> NewTimer(live, "wq.updateTimer"),
                     onStateChange |-> onStateChange]
        /\ timers' = setInterval(live, "wq.updateTimer")
        /\ monOp' = [op |-> "wq.startMonitoring", wasActive |-> wqMon.isActive,
                     previous |-> wqMon.onStateChange]
        /\ UNCHANGED <<fishMon, usageMon, fetches, motion>>
        /\ UNCHANGED <<wqVars, fishVars, storeVars, calcVars, restVars>>
        /\ notified' = WqNotify("startMonitoring")'

\* The interval callback of lines 313-316: this.updateTurbidity([])
WqUpdateTimerFires ==
    /\ driven = "wq"
    /\ \E t \in timers : t.owner = "wq.updateTimer"
    /\ UpdateTurbidity(<<>>)

\* ---- FishBehaviorManager ----

\* Values of Math.cos / Math.sin (in tenths) and of Math.random() (in
\* tenths, below 1) at a position update, and of the animation phase
\* Math.random() * Math.PI * 2 (in radians, rounded down).
TrigValues   == {-10, 0, 10}
RandomSteps  == 10
RandomValues == {0, 5, 9}
PhaseValues  == {0, 3}

\* TANK_BOUNDS, lines 53-58
TANK_LEFT   == 1000
TANK_RIGHT  == 9000
TANK_TOP    == 2000
TANK_BOTTOM == 8000

\* updateNormalPosition(), lines 283-293
updateNormalPosition(position, cosine, sine) ==
    [x |-> 5000 + cosine * 200, y |-> 5000 + sine * 150]

\* updateDistressedPosition(), lines 298-308
updateDistressedPosition(position, intensity, randomX, randomY) ==
    [x |-> position.x + (randomX - 5) * intensity * 10,
     y |-> position.y + (randomY - 5) * intensity * 10]

\* updateDyingPosition(), lines 313-324
updateDyingPosition(position, sine) ==
    [x |-> position.x + sine * 20,
     y |-> Min(position.y + 10, TANK_BOTTOM)]

\* updateDeadPosition(), lines 329-341
updateDeadPosition(position, sine) ==
    [x |-> position.x + sine * 10,
     y |-> Max(position.y - 5, TANK_TOP)]

applyBoundaryConstraintsNoBottom(position) ==
    [x |-> clamp(position.x, TANK_LEFT, TANK_RIGHT),
     y |-> Max(TANK_BOTTOM, position.y)]

\* applyBoundaryConstraints(), lines 346-358: clamp is given (value, min,
\* max) where it takes (min, max, value)
applyBoundaryConstraints(position) ==
    [x |-> clamp(position.x, TANK_LEFT, TANK_RIGHT),
     y |-> clamp(position.y, TANK_TOP, TANK_BOTTOM)]

\* updatePosition(), lines 266-274: the method the if-chain calls
positionUpdate(state) ==
    IF state.isDead THEN "updateDeadPosition"
    ELSE IF state.isDying THEN "updateDyingPosition"
    ELSE IF state.movementPattern = "distressed" THEN "updateDistressedPosition"
    ELSE "updateNormalPosition"

\* updatePosition(), lines 265-278
updatePosition(state, position, cosine, sine, randomX, randomY) ==
    applyBoundaryConstraints(
        CASE positionUpdate(state) = "updateDeadPosition" ->
               updateDeadPosition(position, sine)
          [] positionUpdate(state) = "updateDyingPosition" ->
               updateDyingPosition(position, sine)
          [] positionUpdate(state) = "updateDistressedPosition" ->
               updateDistressedPosition(position, state.distressLevel, randomX, randomY)
          [] positionUpdate(state) = "updateNormalPosition" ->
               updateNormalPosition(position, cosine, sine))

FishTimersAfterStopKeepsAnimation ==
    IF fishMon.updateTimer # NoTimer
    THEN clearInterval(timers, fishMon.updateTimer) ELSE timers

\* stopBehaviorMonitoring(), lines 395-410: the timers it leaves alive
FishTimersAfterStop ==
    LET live == IF fishMon.updateTimer # NoTimer
                THEN clearInterval(timers, fishMon.updateTimer) ELSE timers
    IN  IF fishMon.animationTimer # NoTimer
        THEN clearInterval(live, fishMon.animationTimer) ELSE live

\* stopBehaviorMonitoring(), lines 395-410
StopBehaviorMonitoring ==
    /\ driven = "fish"
    /\ fishMon' = [isActive |-> FALSE, updateTimer |-> NoTimer, animationTimer |-> NoTimer,
                   onStateChange |-> NoCallback]
    /\ timers' = FishTimersAfterStop
    /\ monOp' = [op |-> "fish.stopBehaviorMonitoring", wasActive |-> fishMon.isActive]
    /\ notified' = <<>>
    /\ UNCHANGED <<wqMon, usageMon, fetches, motion>>
    /\ UNCHANGED <<wqVars, fishVars, storeVars, calcVars, restVars>>

\* startBehaviorMonitoring(onStateChange), lines 367-390
StartBehaviorMonitoring(onStateChange) ==
    LET live  == IF fishMon.isActive THEN FishTimersAfterStop ELSE timers
        live1 == setInterval(live, "fish.updateTimer")
    IN  /\ driven = "fish"
        /\ fishMon' = [isActive |-> TRUE,
                       updateTimer |-> NewTimer(live, "fish.updateTimer"),
                       animationTimer |-> NewTimer(live1, "fish.animationTimer"),
                       onStateChange |-> onStateChange]
        /\ timers' = setInterval(live1, "fish.animationTimer")
        /\ monOp' = [op |-> "fish.startBehaviorMonitoring", wasActive |-> fishMon.isActive,
                     previous |-> fishMon.onStateChange]
        /\ UNCHANGED <<wqMon, usageMon, fetches, motion>>
        /\ UNCHANGED <<wqVars, fishVars, storeVars, calcVars, restVars>>
        /\ notified' = FishNotify("startBehaviorMonitoring")'

\* The interval callback of lines 381-384: updatePosition(); notifyStateChange()
FishUpdateTimerFires ==
    /\ driven = "fish"
    /\ \E t \in timers : t.owner = "fish.updateTimer"
    /\ \E cosine \in TrigValues, sine \in TrigValues, random \in RandomValues :
          motion' = [motion EXCEPT !.position =
                        updatePosition(behaviorState, motion.position,
                                       cosine, sine, random, RandomSteps - 1 - random)]
    /\ monOp' = [op |-> "fish.updateTimer", from |-> motion.position,
                 called |-> positionUpdate(behaviorState)]
    /\ UNCHANGED <<wqMon, fishMon, usageMon, timers, fetches>>
    /\ UNCHANGED <<wqVars, fishVars, storeVars, calcVars, restVars>>
    /\ notified' = FishNotify("updatePosition")'

\* The interval callback of lines 387-389: a new animationPhase
FishAnimationTimerFires ==
    /\ driven = "fish"
    /\ \E t \in timers : t.owner = "fish.animationTimer"
    /\ \E phase \in PhaseValues : motion' = [motion EXCEPT !.animationPhase = phase]
    /\ monOp' = [op |-> "fish.animationTimer"]
    /\ notified' = <<>>
    /\ UNCHANGED <<wqMon, fishMon, usageMon, timers, fetches>>
    /\ UNCHANGED <<wqVars, fishVars, storeVars, calcVars, restVars>>

\* setPosition(x, y), lines 435-439
SetPosition(x, y) ==
    /\ driven = "fish"
    /\ motion' = [motion EXCEPT !.position = [x |-> clamp(x, 0, PosDen),
                                              y |-> clamp(y, 0, PosDen)]]
    /\ monOp' = [op |-> "fish.setPosition"]
    /\ UNCHANGED <<wqMon, fishMon, usageMon, timers, fetches>>
    /\ UNCHANGED <<wqVars, fishVars, storeVars, calcVars, restVars>>
    /\ notified' = FishNotify("setPosition")'

PositionArgs == {3000, 9500}

\* ---- AppUsageService ----

\* updateUsageStats(), lines 309-324, up to its await: nothing without an
\* observer; otherwise getRestrictedAppUsage() is entered, which has its
\* result at once when no app is restricted and otherwise awaits
\* getUsageStats().
Fetches == [immediate : BOOLEAN, startedFor : Callbacks]

BeginUpdateUsageStats(inFlight, service) ==
    IF service.onUsageUpdate = NoCallback THEN inFlight
    ELSE inFlight (+) SetToBag({[immediate  |-> service.restrictedApps = <<>>,
                                 startedFor |-> service.onUsageUpdate]})

\* stopMonitoring(), lines 293-304: the timers it leaves alive
UsageTimersAfterStop ==
    IF usageMon.monitoringInterval # NoTimer
    THEN clearInterval(timers, usageMon.monitoringInterval) ELSE timers

\* stopMonitoring(), lines 293-304
UsageStopMonitoring ==
    /\ driven = "usage"
    /\ usageMon' = [isMonitoring |-> FALSE, monitoringInterval |-> NoTimer,
                    onUsageUpdate |-> NoCallback, restrictedApps |-> <<>>]
    /\ timers' = UsageTimersAfterStop
    /\ monOp' = [op |-> "usage.stopMonitoring", wasActive |-> usageMon.isMonitoring]
    /\ notified' = <<>>
    /\ UNCHANGED <<wqMon, fishMon, fetches, motion>>
    /\ UNCHANGED <<wqVars, fishVars, storeVars, calcVars, restVars>>

\* startMonitoring(restrictions, onUpdate), lines 267-288
UsageStartMonitoring(restrictions, onUpdate) ==
    LET live    == IF usageMon.isMonitoring THEN UsageTimersAfterStop ELSE timers
        started == [isMonitoring |-> TRUE,
                    monitoringInterval |-> NewTimer(live, "usage.monitoringInterval"),
                    onUsageUpdate |-> onUpdate, restrictedApps |-> restrictions]
    IN  /\ driven = "usage"
        /\ BagCardinality(fetches) < MaxFetches
        /\ usageMon' = started
        /\ fetches' = BeginUpdateUsageStats(fetches, started)
        /\ timers' = setInterval(live, "usage.monitoringInterval")
        /\ monOp' = [op |-> "usage.startMonitoring", wasActive |-> usageMon.isMonitoring,
                     previous |-> usageMon.onUsageUpdate]
        /\ notified' = <<>>
        /\ UNCHANGED <<wqMon, fishMon, motion>>
        /\ UNCHANGED <<wqVars, fishVars, storeVars, calcVars, restVars>>

\* The interval callback of lines 285-287: this.updateUsageStats()
UsageTimerFires ==
    /\ driven = "usage"
    /\ \E t \in timers : t.owner = "usage.monitoringInterval"
    /\ BagCardinality(fetches) < MaxFetches
    /\ fetches' = BeginUpdateUsageStats(fetches, usageMon)
    /\ monOp' = [op |-> "usage.monitoringInterval"]
    /\ notified' = <<>>
    /\ UNCHANGED <<wqMon, fishMon, usageMon, timers, motion>>
    /\ UNCHANGED <<wqVars, fishVars, storeVars, calcVars, restVars>>

UsageFetchCompletesForStarter(fetch, success) ==
    /\ driven = "usage"
    /\ BagIn(fetch, fetches)
    /\ fetch.immediate => success
    /\ fetches' = fetches (-) SetToBag({fetch})
    /\ notified' = IF success
                   THEN <<[by       |-> "updateUsageStats",
                           service  |-> "usage",
                           callback |-> fetch.startedFor,
                           state    |-> "data"]>>
                   ELSE <<>>
    /\ monOp' = [op |-> "usage.updateUsageStats", success |-> success,
                 startedFor |-> fetch.startedFor]
    /\ UNCHANGED <<wqMon, fishMon, usageMon, timers, motion>>
    /\ UNCHANGED <<wqVars, fishVars, storeVars, calcVars, restVars>>

\* updateUsageStats(), lines 314-323, after its await: the result arrives;
\* on success this.onUsageUpdate(result.data) is called, which throws a
\* TypeError (caught and logged) when the observer is null by then.
UsageFetchCompletes(fetch, success) ==
    /\ driven = "usage"
    /\ BagIn(fetch, fetches)
    /\ fetch.immediate => success
    /\ fetches' = fetches (-) SetToBag({fetch})
    /\ notified' = IF success /\ usageMon.onUsageUpdate # NoCallback
                   THEN <<[by       |-> "updateUsageStats",
                           service  |-> "usage",
                           callback |-> usageMon.onUsageUpdate,
                           state    |-> "data"]>>
                   ELSE <<>>
    /\ monOp' = [op |-> "usage.updateUsageStats", success |-> success,
                 startedFor |-> fetch.startedFor]
    /\ UNCHANGED <<wqMon, fishMon, usageMon, timers, motion>>
    /\ UNCHANGED <<wqVars, fishVars, storeVars, calcVars, restVars>>

\* Calls made from outside on the driven manager while it is (or is not)
\* monitoring: the actions of NextWQ and NextFish, and the passing of time.
WqClockMoves(t) == driven = "wq" /\ ClockMoves(t)

WqUpdateTurbidityCalled(inputs) == driven = "wq" /\ UpdateTurbidity(inputs)

WqSetTurbidityCalled(turbidity) == driven = "wq" /\ SetTurbidity(turbidity)

WqManualWaterChangeCalled == driven = "wq" /\ PerformManualWaterChange

FishUpdateBehaviorCalled(waterLevel, p) == driven = "fish" /\ UpdateBehavior(waterLevel, p)

FishResetBehaviorStateCalled == driven = "fish" /\ ResetBehaviorState

\* Pets handed to updateBehavior while the motion is watched: none, a
\* healthy one, one at the dying threshold and one without health.
MonitorPets == {NoPet} \cup [health : {0, 20, 100}, personality : {"calm"}]

NextMon ==
    \/ \E onStateChange \in Callbacks : WqStartMonitoring(onStateChange)
    \/ WqStopMonitoring
    \/ WqUpdateTimerFires
    \/ \E t \in MonitorClockValues : WqClockMoves(t)
    \/ \E inputs \in SeqsUpTo(SampleInputs, 1) : WqUpdateTurbidityCalled(inputs)
    \/ \E turbidity \in TurbidityArgs : WqSetTurbidityCalled(turbidity * FP)
    \/ WqManualWaterChangeCalled
    \/ \E onStateChange \in Callbacks : StartBehaviorMonitoring(onStateChange)
    \/ StopBehaviorMonitoring
    \/ FishUpdateTimerFires
    \/ FishAnimationTimerFires
    \/ \E x \in PositionArgs, y \in PositionArgs : SetPosition(x, y)
    \/ \E waterLevel \in WaterLevels, p \in MonitorPets :
          FishUpdateBehaviorCalled(waterLevel, p)
    \/ FishResetBehaviorStateCalled
    \/ \E restrictions \in RestrictionLists, onUpdate \in Callbacks :
          UsageStartMonitoring(restrictions, onUpdate)
    \/ UsageStopMonitoring
    \/ UsageTimerFires
    \/ \E fetch \in Fetches, success \in BOOLEAN : UsageFetchCompletes(fetch, success)

(***************************************************************************)
(* DataPersistenceService (src/unnamed/part_005, from line 434) and        *)
(* AsyncStorageDB (src/infrastructure/database/AsyncStorageDB.ts)          *)
(*                                                                         *)
(* The stored item is kept as the JSON value of its text: a Date is        *)
(* written as its ISO string, <<"ISO", t>>, and DatabaseSchema turns the   *)
(* string back into a Date when the item is read.  Of the persisted fields *)
(* the ones the store model has are kept: currentPet, deadPets, usedNames, *)
(* appRestrictions, gameStats, aquariumConfig, version and lastUpdated.    *)
(* The database object has been initialized (initialize(), lines 41-66).   *)
(***************************************************************************)
NoSavedState == [isNull |-> TRUE]
NoExport     == [isNull |-> TRUE]

\* Date.prototype.toJSON and new Date(string)
toJSON(date) == <<"ISO", date>>
fromJSON(text) == text[2]

\* JSON.stringify(data, null, 2) in saveRawData and exportData, read back
\* as a JSON value: every Date of the data has become a string
stringify(data) ==
    [data EXCEPT
       !.currentPet = IF @ = NoPet THEN NoPet ELSE [@ EXCEPT !.createdAt = toJSON(@)],
       !.deadPets   = [i \in DOMAIN @ |-> [@[i] EXCEPT !.createdAt = toJSON(@),
                                                       !.diedAt    = toJSON(@)]],
       !.lastUpdated = toJSON(@)]

\* PetSchema, DeadPetSchema, AppRestrictionSchema, GameStatsSchema and
\* AquariumConfigSchema (schema.ts, lines 18-116): what parse accepts
PetSchemaAccepts(p) ==
    /\ Len(p.name) >= 1 /\ Len(p.name) <= 12
    /\ p.personality \in Personalities
    /\ p.health >= 0 /\ p.health <= 100
    /\ p.status \in PetStatuses

DeadPetSchemaAccepts(d) ==
    /\ d.personality \in Personalities
    /\ d.totalLifetime >= 0
    /\ d.deathReason \in {"time_limit_exceeded", "neglect", "app_overuse"}

AppRestrictionSchemaAccepts(r) == r.dailyLimit >= 0 /\ r.weeklyLimit >= 0

\* isDatabaseData(data), lines 318-325: DatabaseSchema.parse does not throw
isDatabaseData(json) ==
    /\ json.currentPet = NoPet \/ PetSchemaAccepts(json.currentPet)
    /\ \A i \in DOMAIN json.deadPets : DeadPetSchemaAccepts(json.deadPets[i])
    /\ \A i \in DOMAIN json.appRestrictions :
          AppRestrictionSchemaAccepts(json.appRestrictions[i])
    /\ \A k \in DOMAIN json.gameStats : json.gameStats[k] >= 0
    /\ json.aquariumConfig.waterQuality >= 0 /\ json.aquariumConfig.waterQuality <= 100

\* validateDatabaseData(data), lines 233-235: the value DatabaseSchema.parse
\* returns, every date string transformed into a Date
validateDatabaseData(json) ==
    [json EXCEPT
       !.currentPet = IF @ = NoPet THEN NoPet ELSE [@ EXCEPT !.createdAt = fromJSON(@)],
       !.deadPets   = [i \in DOMAIN @ |-> [@[i] EXCEPT !.createdAt = fromJSON(@),
                                                       !.diedAt    = fromJSON(@)]],
       !.lastUpdated = fromJSON(@)]

\* createDefaultDatabase(), lines 284-297
createDefaultDatabase ==
    [currentPet      |-> NoPet,
     deadPets        |-> <<>>,
     usedNames       |-> <<>>,
     appRestrictions |-> <<>>,
     gameStats       |-> [totalPetsRaised |-> 0, totalPetDeaths |-> 0, currentStreak |-> 0],
     aquariumConfig  |-> [waterQuality |-> AQUARIUM_WATER_QUALITY],
     version         |-> "1.0.0",
     lastUpdated     |-> now]

\* saveAllData(), lines 686-696: the databaseData built from the store
databaseData ==
    [currentPet      |-> pet.current,
     deadPets        |-> memorial.deadPets,
     usedNames       |-> memorial.usedNames,
     appRestrictions |-> appRestrictionsState,
     gameStats       |-> game.stats,
     aquariumConfig  |-> [waterQuality |-> game.waterQuality]]

\* calculateStateHash(state), lines 713-724: the JSON text of pet, stats and
\* the two lengths (settings do not change in this model)
calculateStateHash ==
    [pet                |-> stringify([createDefaultDatabase EXCEPT
                                          !.currentPet = pet.current]).currentPet,
     gameStats          |-> game.stats,
     deadPetsLength     |-> Len(memorial.deadPets),
     restrictionsLength |-> Len(appRestrictionsState)]

\* { ...currentData.data, ...data }, lines 174-176
mergeData(currentData, data) ==
    [k \in DOMAIN currentData \cup DOMAIN data |->
        IF k \in DOMAIN data THEN data[k] ELSE currentData[k]]

\* AsyncStorageDB.saveData(data), lines 166-187: the item it writes when
\* the stored item can be read
saveData(json, data) ==
    stringify([mergeData(validateDatabaseData(json), data) EXCEPT !.lastUpdated = now])

NoSaveOp == [op |-> "none"]

InitPersist ==
    /\ appRestrictionsState = <<>>
    /\ isSaving = FALSE
    /\ lastSavedState = NoSavedState
    /\ saves = <<>>
    /\ exported = NoExport
    /\ saveOp = NoSaveOp

\* Restrictions handed to setAppRestrictions, and the limits to updateAppLimit
PersistRestrictions ==
    {<<>>, <<[appId |-> "com.video", dailyLimit |-> 60, weeklyLimit |-> 300,
              isActive |-> TRUE]>>}
PersistLimits == {30}

\* setAppRestrictions(appRestrictionsState), store lines 187-192
SetAppRestrictions(list) ==
    /\ appRestrictionsState' = list
    /\ saveOp' = [op |-> "setAppRestrictions"]
    /\ UNCHANGED <<isSaving, lastSavedState, saves, stored, exported>>
    /\ UNCHANGED <<wqVars, fishVars, storeVars, calcVars, monVars, notified, motion, driven, statsVars, dbVars>>

\* toggleAppRestriction(appId), store lines 213-220
ToggleAppRestriction(appId) ==
    /\ appRestrictionsState' = [i \in DOMAIN appRestrictionsState |->
                           IF /\ appRestrictionsState[i].appId = appId
                              /\ \A j \in 1..(i - 1) : appRestrictionsState[j].appId # appId
                           THEN [appRestrictionsState[i] EXCEPT !.isActive = ~@]
                           ELSE appRestrictionsState[i]]
    /\ saveOp' = [op |-> "toggleAppRestriction"]
    /\ UNCHANGED <<isSaving, lastSavedState, saves, stored, exported>>
    /\ UNCHANGED <<wqVars, fishVars, storeVars, calcVars, monVars, notified, motion, driven, statsVars, dbVars>>

\* updateAppLimit(appId, dailyLimit, weeklyLimit), store lines 222-230
UpdateAppLimit(appId, dailyLimit, weeklyLimit) ==
    /\ appRestrictionsState' = [i \in DOMAIN appRestrictionsState |->
                           IF /\ appRestrictionsState[i].appId = appId
                              /\ \A j \in 1..(i - 1) : appRestrictionsState[j].appId # appId
                           THEN [appRestrictionsState[i] EXCEPT !.dailyLimit = dailyLimit,
                                                        !.weeklyLimit = weeklyLimit]
                           ELSE appRestrictionsState[i]]
    /\ saveOp' = [op |-> "updateAppLimit"]
    /\ UNCHANGED <<isSaving, lastSavedState, saves, stored, exported>>
    /\ UNCHANGED <<wqVars, fishVars, storeVars, calcVars, monVars, notified, motion, driven, statsVars, dbVars>>

\* saveAllData(), lines 664-696, up to its await.  A call made while
\* isSaving returns false.  Otherwise the flag is set and the hash is
\* compared: on an equal hash line 679 calls logger.debug, which
\* createLogger does not define, so the call throws and the finally block
\* clears the flag; on another hash the execution is suspended at
\* database.saveData with the data it read from the store.
SaveAllData ==
    /\ IF isSaving
       THEN /\ saveOp' = [op |-> "saveAllData", returned |-> "false"]
            /\ UNCHANGED <<isSaving, saves>>
       ELSE IF lastSavedState = calculateStateHash
       THEN /\ saveOp' = [op |-> "saveAllData", returned |-> "threw"]
            /\ UNCHANGED <<isSaving, saves>>
       ELSE /\ isSaving' = TRUE
            /\ saves' = Append(saves, [data |-> databaseData, stateHash |-> calculateStateHash])
            /\ saveOp' = [op |-> "saveAllData", returned |-> "pending"]
    /\ UNCHANGED <<appRestrictionsState, lastSavedState, stored, exported>>
    /\ UNCHANGED <<wqVars, fishVars, storeVars, calcVars, monVars, notified, motion, driven, statsVars, dbVars>>

SaveAllDataCompletesNoFinally(storageOk) ==
    /\ saves # <<>>
    /\ LET save    == Head(saves)
           success == storageOk /\ isDatabaseData(stored)
       IN  /\ stored' = IF success THEN saveData(stored, save.data) ELSE stored
           /\ lastSavedState' = IF success THEN save.stateHash ELSE lastSavedState
           /\ isSaving' = IF success THEN FALSE ELSE isSaving
           /\ saveOp' = [op |-> "saveAllData", returned |-> IF success THEN "true" ELSE "false"]
    /\ saves' = Tail(saves)
    /\ UNCHANGED <<appRestrictionsState, exported>>
    /\ UNCHANGED <<wqVars, fishVars, storeVars, calcVars, monVars, notified, motion, driven, statsVars, dbVars>>

\* saveAllData(), lines 698-708, after its await: database.saveData has read
\* the stored item (a failure when it does not pass validation), merged the
\* data and written the item (a failure when storage fails); the finally
\* block clears the flag.
SaveAllDataCompletes(storageOk) ==
    /\ saves # <<>>
    /\ LET save    == Head(saves)
           success == storageOk /\ isDatabaseData(stored)
       IN  /\ stored' = IF success THEN saveData(stored, save.data) ELSE stored
           /\ lastSavedState' = IF success THEN save.stateHash ELSE lastSavedState
           /\ saveOp' = [op |-> "saveAllData", returned |-> IF success THEN "true" ELSE "false"]
    /\ isSaving' = FALSE
    /\ saves' = Tail(saves)
    /\ UNCHANGED <<appRestrictionsState, exported>>
    /\ UNCHANGED <<wqVars, fishVars, storeVars, calcVars, monVars, notified, motion, driven, statsVars, dbVars>>

\* AsyncStorageDB.exportData(), lines 328-346: loadData validates the stored
\* item; the string holds the validated data, its dates written as strings
\* again
ExportData(storageOk) ==
    /\ LET success == storageOk /\ isDatabaseData(stored)
       IN  /\ exported' = IF success
                          THEN [data |-> stringify(validateDatabaseData(stored)),
                                from |-> stored]
                          ELSE NoExport
           /\ saveOp' = [op |-> "exportData", success |-> success, storageOk |-> storageOk]
    /\ UNCHANGED <<appRestrictionsState, isSaving, lastSavedState, saves, stored>>
    /\ UNCHANGED <<wqVars, fishVars, storeVars, calcVars, monVars, notified, motion, driven, statsVars, dbVars>>

\* AsyncStorageDB.importData(jsonData), lines 351-367, on the string
\* exportData returned: the parsed data is tested with isDatabaseData and
\* handed to saveRawData as parsed (strings, numbers, arrays and plain
\* objects, which JSON.stringify writes back as they are)
ImportData(storageOk) ==
    /\ exported # NoExport
    /\ LET success == storageOk /\ isDatabaseData(exported.data)
       IN  /\ stored' = IF success THEN exported.data ELSE stored
           /\ saveOp' = [op |-> "importData", success |-> success, storageOk |-> storageOk]
    /\ UNCHANGED <<appRestrictionsState, isSaving, lastSavedState, saves, exported>>
    /\ UNCHANGED <<wqVars, fishVars, storeVars, calcVars, monVars, notified, motion, driven, statsVars, dbVars>>

\* The store calls made while data is saved
NextPersist ==
    \/ CreatePet(<<"N", "e", "o">>, "shy", 0)
    \/ KillPet("YouTube", "neglect", 0)
    \/ \E list \in PersistRestrictions : SetAppRestrictions(list)
    \/ ToggleAppRestriction("com.video")
    \/ \E limit \in PersistLimits : UpdateAppLimit("com.video", limit, limit)
    \/ SaveAllData
    \/ \E storageOk \in BOOLEAN : SaveAllDataCompletes(storageOk)

\* The names given to createPet before a backup is made
BackupNames == {<<"N", "e", "o">>, <<" ">>}

NextBackup ==
    \/ \E name \in BackupNames : CreatePet(name, "shy", 0)
    \/ SaveAllData
    \/ \E storageOk \in BOOLEAN : SaveAllDataCompletes(storageOk)
    \/ \E storageOk \in BOOLEAN : ExportData(storageOk)
    \/ \E storageOk \in BOOLEAN : ImportData(storageOk)

(***************************************************************************)
(* AsyncStorageDB: initialize (lines 41-66), loadData (152-161), savePet   *)
(* (212-214) and updateGameStats (259-277).  AsyncStorage serves one       *)
(* request at a time; a method is suspended between two of its requests,   *)
(* and other methods run in between.                                       *)
(***************************************************************************)
\* AsyncStorage.getItem resolves null: no item has been written
NoItem == [isNull |-> TRUE]
\* an item whose text JSON.parse rejects
Unparseable == [unparseable |-> TRUE]

\* getRawData(), lines 122-134: whether it returns success
getRawDataSucceeds(item, readOk) ==
    /\ readOk
    /\ item # NoItem
    /\ item # Unparseable
    /\ isDatabaseData(item)

Idle == [phase |-> "idle"]
NoDbOp == [op |-> "none"]
Methods == {"savePet", "updateGameStats"}

\* The database object after initialize() on a first start: the item holds
\* the default database and no method is running
InitDatabase ==
    /\ stored = stringify(createDefaultDatabase)
    /\ isInitialized = TRUE
    /\ partials = [method \in Methods |-> Idle]
    /\ dbOp = NoDbOp

\* The items a new database object can find: none, a text that does not
\* parse, and the default database of an earlier start
FoundItems == {NoItem, Unparseable, stringify(createDefaultDatabase)}

\* The database object before initialize()
InitUninitialized ==
    /\ stored \in FoundItems
    /\ isInitialized = FALSE
    /\ partials = [method \in Methods |-> Idle]
    /\ dbOp = NoDbOp

\* initialize(), lines 41-66: the item it leaves.  The result of
\* saveRawData(defaultData) is not looked at.
itemAfterInitialize(readOk, writeOk) ==
    IF isInitialized \/ getRawDataSucceeds(stored, readOk) \/ ~writeOk
    THEN stored
    ELSE stringify(createDefaultDatabase)

\* initialize(), lines 41-66.  getRawData and saveRawData return results and
\* runMigrations finds migrationVersion 1, so nothing throws inside
\* asyncSafeExecute and the call returns success.
Initialize(readOk, writeOk) ==
    /\ stored' = itemAfterInitialize(readOk, writeOk)
    /\ isInitialized' = TRUE
    /\ dbOp' = [op          |-> "initialize",
                success     |-> TRUE,
                first       |-> ~isInitialized,
                found       |-> getRawDataSucceeds(stored, readOk),
                storageOk   |-> isInitialized \/ (readOk /\ (writeOk \/ getRawDataSucceeds(stored, readOk)))]
    /\ UNCHANGED partials
    /\ UNCHANGED <<appRestrictionsState, isSaving, lastSavedState, saves, exported, saveOp>>
    /\ UNCHANGED <<wqVars, fishVars, storeVars, calcVars, monVars, notified, motion, driven,
                   statsVars>>

\* loadData(), lines 152-161: initialize() when it has not run, then
\* getRawData()
LoadData(readOk, writeOk) ==
    /\ stored' = itemAfterInitialize(readOk, writeOk)
    /\ isInitialized' = TRUE
    /\ dbOp' = [op        |-> "loadData",
                success   |-> getRawDataSucceeds(stored', readOk),
                data      |-> IF getRawDataSucceeds(stored', readOk)
                              THEN validateDatabaseData(stored') ELSE NoItem]
    /\ UNCHANGED partials
    /\ UNCHANGED <<appRestrictionsState, isSaving, lastSavedState, saves, exported, saveOp>>
    /\ UNCHANGED <<wqVars, fishVars, storeVars, calcVars, monVars, notified, motion, driven,
                   statsVars>>

InFlight(method) == partials[method].phase \in {"loaded", "read"}

\* savePetImmediate(), part_005 lines 582-592, up to the write: savePet(pet)
\* is saveData({currentPet: pet}), whose getRawData is served now
SavePetBegins(readOk) ==
    /\ pet.current # NoPet
    /\ ~InFlight("savePet")
    /\ IF getRawDataSucceeds(stored, readOk)
       THEN /\ partials' = [partials EXCEPT !["savePet"] =
                               [phase       |-> "read",
                                data        |-> [currentPet |-> pet.current],
                                currentData |-> validateDatabaseData(stored)]]
            /\ UNCHANGED dbOp
       ELSE /\ partials' = [partials EXCEPT !["savePet"] = [phase |-> "failed"]]
            /\ dbOp' = [op |-> "savePet", success |-> FALSE]
    /\ UNCHANGED <<stored, isInitialized>>
    /\ UNCHANGED <<appRestrictionsState, isSaving, lastSavedState, saves, exported, saveOp>>
    /\ UNCHANGED <<wqVars, fishVars, storeVars, calcVars, monVars, notified, motion, driven,
                   statsVars>>

\* saveGameStatsImmediate(), part_005 lines 610-618, up to the first await
\* of saveData: updateGameStats(stats) has read the item with loadData
UpdateGameStatsBegins(readOk) ==
    /\ isInitialized
    /\ ~InFlight("updateGameStats")
    /\ IF getRawDataSucceeds(stored, readOk)
       THEN /\ partials' = [partials EXCEPT !["updateGameStats"] =
                               [phase |-> "loaded",
                                data  |-> [gameStats |->
                                             mergeData(validateDatabaseData(stored).gameStats,
                                                       game.stats)]]]
            /\ UNCHANGED dbOp
       ELSE /\ partials' = [partials EXCEPT !["updateGameStats"] = [phase |-> "failed"]]
            /\ dbOp' = [op |-> "updateGameStats", success |-> FALSE]
    /\ UNCHANGED <<stored, isInitialized>>
    /\ UNCHANGED <<appRestrictionsState, isSaving, lastSavedState, saves, exported, saveOp>>
    /\ UNCHANGED <<wqVars, fishVars, storeVars, calcVars, monVars, notified, motion, driven,
                   statsVars>>

\* saveData(data), lines 168-172: getRawData is served
SaveDataReads(method, readOk) ==
    /\ partials[method].phase = "loaded"
    /\ IF getRawDataSucceeds(stored, readOk)
       THEN /\ partials' = [partials EXCEPT ![method] =
                               [phase       |-> "read",
                                data        |-> partials[method].data,
                                currentData |-> validateDatabaseData(stored)]]
            /\ UNCHANGED dbOp
       ELSE /\ partials' = [partials EXCEPT ![method] = [phase |-> "failed"]]
            /\ dbOp' = [op |-> method, success |-> FALSE]
    /\ UNCHANGED <<stored, isInitialized>>
    /\ UNCHANGED <<appRestrictionsState, isSaving, lastSavedState, saves, exported, saveOp>>
    /\ UNCHANGED <<wqVars, fishVars, storeVars, calcVars, monVars, notified, motion, driven,
                   statsVars>>

\* saveData(data), lines 174-186: the data read earlier is merged with the
\* update and saveRawData is served; the method returns
SaveDataWrites(method, writeOk) ==
    /\ partials[method].phase = "read"
    /\ IF writeOk
       THEN /\ stored' = stringify([mergeData(partials[method].currentData,
                                               partials[method].data)
                                       EXCEPT !.lastUpdated = now])
            /\ partials' = [partials EXCEPT ![method] =
                               [phase |-> "done", data |-> partials[method].data]]
            /\ dbOp' = [op |-> method, success |-> TRUE, data |-> partials[method].data]
       ELSE /\ UNCHANGED stored
            /\ partials' = [partials EXCEPT ![method] = [phase |-> "failed"]]
            /\ dbOp' = [op |-> method, success |-> FALSE]
    /\ UNCHANGED isInitialized
    /\ UNCHANGED <<appRestrictionsState, isSaving, lastSavedState, saves, exported, saveOp>>
    /\ UNCHANGED <<wqVars, fishVars, storeVars, calcVars, monVars, notified, motion, driven,
                   statsVars>>

\* The app is started again while no method is running: a new store and a
\* new database object over the same item
Restart ==
    /\ \A method \in Methods : ~InFlight(method)
    /\ isInitialized
    /\ isInitialized' = FALSE
    /\ partials' = [method \in Methods |-> Idle]
    /\ dbOp' = [op |-> "restart"]
    /\ pet' = [current |-> NoPet, isMonitoring |-> FALSE, lastUpdateTime |-> 0]
    /\ memorial' = [deadPets |-> <<>>, usedNames |-> <<>>]
    /\ game' = [stats |-> [totalPetsRaised |-> 0, totalPetDeaths |-> 0, currentStreak |-> 0],
                waterQuality |-> AQUARIUM_WATER_QUALITY]
    /\ storeOp' = NoStoreOp
    /\ UNCHANGED stored
    /\ UNCHANGED <<appRestrictionsState, isSaving, lastSavedState, saves, exported, saveOp>>
    /\ UNCHANGED <<wqVars, fishVars, calcVars, monVars, notified, motion, driven, statsVars>>

\* Pets created between two starts of the app
MaxCreated == 1

NextDatabase ==
    \/ \E name \in BackupNames :
          game.stats.totalPetsRaised < MaxCreated /\ CreatePet(name, "shy", 0)
    \/ UpdatePetHealth(50, 0)
    \/ \E readOk \in BOOLEAN, writeOk \in BOOLEAN : Initialize(readOk, writeOk)
    \/ \E readOk \in BOOLEAN, writeOk \in BOOLEAN : LoadData(readOk, writeOk)
    \/ \E readOk \in BOOLEAN : SavePetBegins(readOk)
    \/ \E readOk \in BOOLEAN : UpdateGameStatsBegins(readOk)
    \/ \E method \in Methods, readOk \in BOOLEAN : SaveDataReads(method, readOk)
    \/ \E method \in Methods, writeOk \in BOOLEAN : SaveDataWrites(method, writeOk)
    \/ Restart

(***************************************************************************)
(* AppUsageService: hasPermission (src/unnamed/part_005, lines 72-103) and *)
(* getUsageStats (lines 189-236), on Android with the native module.       *)
(* Times are in seconds.  A call is one step: the native calls it awaits   *)
(* answer from the permission the device holds at that instant.            *)
(***************************************************************************)
PERMISSION_CHECK_INTERVAL == 30
USAGE_STATS_MAX_AGE       == 30
DEFAULT_TIME_RANGE        == 24 * 60 * 60

NoCache   == [isNull |-> TRUE]
NoStatsOp == [op |-> "none"]

\* The device has not granted the permission when the service is constructed.
InitStats ==
    /\ granted = FALSE
    /\ permissionCache = NoCache
    /\ usageStatsCache = NoCache
    /\ statsOp = NoStatsOp

\* What AppUsageNative.getUsageStats resolves to: no entry, an entry with no
\* foreground time, and two entries in ascending order of time
RawStats ==
    {<<>>,
     <<[packageName |-> "com.video", totalTimeInForeground |-> 0]>>,
     <<[packageName |-> "com.chat", totalTimeInForeground |-> 10],
       [packageName |-> "com.video", totalTimeInForeground |-> 60]>>}

\* .sort((a, b) => b.totalTime - a.totalTime), lines 219
RECURSIVE sortByTotalTime(_)
sortByTotalTime(usageData) ==
    IF usageData = <<>> THEN <<>>
    ELSE LET first == CHOOSE i \in DOMAIN usageData :
                         /\ \A j \in DOMAIN usageData :
                               usageData[j].totalTime <= usageData[i].totalTime
                         /\ \A j \in 1..(i - 1) :
                               usageData[j].totalTime < usageData[i].totalTime
             rest  == [j \in 1..(Len(usageData) - 1) |->
                         IF j < first THEN usageData[j] ELSE usageData[j + 1]]
         IN  <<usageData[first]>> \o sortByTotalTime(rest)

\* rawStats.filter(...).map(...).sort(...), lines 211-219
usageDataOf(rawStats) ==
    LET kept   == SelectSeq(rawStats, LAMBDA stat : stat.totalTimeInForeground > 0)
        mapped == [i \in DOMAIN kept |->
                     [packageName |-> kept[i].packageName,
                      totalTime   |-> kept[i].totalTimeInForeground,
                      todayUsage  |-> kept[i].totalTimeInForeground]]
    IN  sortByTotalTime(mapped)

\* hasPermission(), lines 72-103: the value it resolves to
hasPermissionResult(nativeOk) ==
    IF /\ permissionCache # NoCache
       /\ now - permissionCache.lastCheck < PERMISSION_CHECK_INTERVAL
    THEN permissionCache.hasPermission
    ELSE nativeOk /\ granted

\* hasPermission(), lines 72-103: the cache it leaves
permissionCacheAfter(nativeOk) ==
    IF /\ permissionCache # NoCache
       /\ now - permissionCache.lastCheck < PERMISSION_CHECK_INTERVAL
    THEN permissionCache
    ELSE IF nativeOk THEN [hasPermission |-> granted, lastCheck |-> now]
    ELSE NoCache

\* hasPermission() called on its own (ensureUsagePermission, line 403)
HasPermission(nativeOk) ==
    /\ permissionCache' = permissionCacheAfter(nativeOk)
    /\ statsOp' = [op |-> "hasPermission", result |-> hasPermissionResult(nativeOk)]
    /\ UNCHANGED <<granted, usageStatsCache>>
    /\ UNCHANGED <<wqVars, fishVars, storeVars, calcVars, monVars, notified, motion, driven,
                   saveVars, dbVars>>

\* getUsageStats(timeRangeMs), lines 189-236.  A cached result of the same
\* time range that is younger than 30 s is returned first; otherwise
\* hasPermission decides, and then the native call, which resolves to
\* rawStats or throws (statsOk).  Without the permission the device returns
\* no entries.
GetUsageStats(timeRangeMs, permissionOk, statsOk, rawStats) ==
    /\ granted \/ rawStats = <<>>
    /\ IF /\ usageStatsCache # NoCache
          /\ usageStatsCache.timeRange = timeRangeMs
          /\ now - usageStatsCache.timestamp < USAGE_STATS_MAX_AGE
       THEN /\ statsOp' = [op |-> "getUsageStats", success |-> TRUE,
                           data |-> usageStatsCache.data]
            /\ UNCHANGED <<permissionCache, usageStatsCache>>
       ELSE IF ~hasPermissionResult(permissionOk)
       THEN /\ statsOp' = [op |-> "getUsageStats", success |-> FALSE, data |-> <<>>]
            /\ permissionCache' = permissionCacheAfter(permissionOk)
            /\ UNCHANGED usageStatsCache
       ELSE IF statsOk
       THEN /\ statsOp' = [op |-> "getUsageStats", success |-> TRUE,
                           data |-> usageDataOf(rawStats)]
            /\ permissionCache' = permissionCacheAfter(permissionOk)
            /\ usageStatsCache' = [data |-> usageDataOf(rawStats), timestamp |-> now,
                                   timeRange |-> timeRangeMs]
       ELSE /\ statsOp' = [op |-> "getUsageStats", success |-> FALSE, data |-> <<>>]
            /\ permissionCache' = permissionCacheAfter(permissionOk)
            /\ usageStatsCache' = NoCache
    /\ UNCHANGED granted
    /\ UNCHANGED <<wqVars, fishVars, storeVars, calcVars, monVars, notified, motion, driven,
                   saveVars, dbVars>>

\* The user grants or revokes the permission in the device settings.
PermissionChanges ==
    /\ granted' = ~granted
    /\ UNCHANGED <<permissionCache, usageStatsCache, statsOp>>
    /\ UNCHANGED <<wqVars, fishVars, storeVars, calcVars, monVars, notified, motion, driven,
                   saveVars, dbVars>>

\* The instants of the calls: the start, and 10, 30 and 40 s later
StatsClockValues == {0, 10, 30, 40}

\* Date.now() advances between two calls
StatsClockMoves(t) ==
    /\ t > now
    /\ now' = t
    /\ UNCHANGED <<currentTurbidity, lastUpdateTime, lastResetTime, wqOp>>
    /\ UNCHANGED <<fishVars, storeVars, calcVars, monVars, notified, motion, restVars>>

\* The time ranges asked for: the default day, and one hour
TimeRanges == {DEFAULT_TIME_RANGE, 60 * 60}

NextStats ==
    \/ \E timeRangeMs \in TimeRanges, permissionOk \in BOOLEAN, statsOk \in BOOLEAN,
          rawStats \in RawStats :
          GetUsageStats(timeRangeMs, permissionOk, statsOk, rawStats)
    \/ \E nativeOk \in BOOLEAN : HasPermission(nativeOk)
    \/ PermissionChanges
    \/ \E t \in StatsClockValues : StatsClockMoves(t)

(***************************************************************************)
(* Specifications: one per component; the other components stay in their   *)
(* initial state.                                                          *)
(***************************************************************************)
InitData == InitWQ /\ InitFish /\ InitStore /\ InitCalc /\ InitMon /\ InitPersist /\ InitStats

Init == InitData /\ InitDatabase /\ driven = NoService

\* The managers constructed at instant 0, for the components that do not
\* read the WaterQualityManager's clock.
InitAtZero == Init /\ now = 0

SpecWQ    == Init /\ [][NextWQ]_vars
SpecFish  == InitAtZero /\ [][NextFish]_vars
SpecStore == InitAtZero /\ [][NextStore]_vars
SpecCalc  == InitAtZero /\ [][NextCalc]_vars
\* Monitoring: one of the three service objects is driven from now = 0.
InitMonitored == InitData /\ InitDatabase /\ now = 0 /\ driven \in Services

SpecMon   == InitMonitored /\ [][NextMon]_vars

SpecPersist == InitAtZero /\ [][NextPersist]_vars
SpecBackup  == InitAtZero /\ [][NextBackup]_vars
SpecStats   == InitAtZero /\ [][NextStats]_vars

\* A new database object over an item left by an earlier start, or none
InitFresh == InitData /\ InitUninitialized /\ driven = NoService /\ now = 0

SpecDatabase == InitFresh /\ [][NextDatabase]_vars

Next == NextWQ \/ NextFish \/ NextStore \/ NextCalc \/ NextMon \/ NextPersist \/ NextBackup \/ NextStats \/ NextDatabase

Spec == Init /\ [][Next]_vars

(***************************************************************************)
(* Properties of the WaterQualityManager (SpecWQ)                          *)
(***************************************************************************)
\* Sunday 00:00 instants, defined from the calendar and not from the code.
SundayMidnights == {w * DaysPerWeek * SecPerDay : w \in 0..(MaxWeek + 2)}

MostRecentSunday(t) ==
    CHOOSE s \in SundayMidnights :
        /\ s <= t
        /\ \A s2 \in SundayMidnights : s2 <= t => s2 <= s

FirstSundayAfter(t) ==
    CHOOSE s \in SundayMidnights :
        /\ s > t
        /\ \A s2 \in SundayMidnights : s2 > t => s <= s2

\* C1: an updateTurbidity tick with positive elapsed time and no weekly reset
\* due leaves turbidity = clamp(old + min(usageMinutes, elapsedMinutes) * 2,
\* 0, 100) when the usage signal is > 0, and clamp(old - elapsedMinutes * 0.5,
\* 0, 100) when the usage signal is 0.
C1_TurbidityFollowsRates ==
    (wqOp.op = "updateTurbidity" /\ wqOp.timeDelta > 0 /\ ~wqOp.resetDue) =>
        LET elapsedMinutes == ToMinutes(wqOp.timeDelta)
            usageMinutes   == ToMinutes(wqOp.totalUsageTime)
        IN  currentTurbidity =
                IF wqOp.totalUsageTime > 0
                THEN ClampTo(wqOp.oldTurbidity + Min(usageMinutes, elapsedMinutes) * 2,
                             0, 100 * FP)
                ELSE ClampTo(wqOp.oldTurbidity - (elapsedMinutes \div 2), 0, 100 * FP)

\* C2: in every reachable state the current turbidity lies in [0, 100].
C2_TurbidityInRange ==
    /\ currentTurbidity >= 0
    /\ currentTurbidity <= 100 * FP

\* C2 witness: setTurbidity was called with a value above 100 and the
\* turbidity it left is inside the range.
C2_Witness ==
    /\ wqOp.op = "setTurbidity"
    /\ wqOp.arg > 100 * FP
    /\ currentTurbidity \in 0..(100 * FP)

\* C3 (as claimed): a tick at or after the first Sunday 00:00 following
\* lastResetTime sets turbidity to 100 and lastResetTime to the most recent
\* Sunday 00:00 <= t; and after EVERY tick lastResetTime is the most recent
\* Sunday 00:00 not later than the tick time.
C3_ResetAfterEveryTick ==
    wqOp.op = "updateTurbidity" =>
        /\ wqOp.tickTime >= FirstSundayAfter(wqOp.oldResetTime) =>
              /\ currentTurbidity = 100 * FP
              /\ lastResetTime = MostRecentSunday(wqOp.tickTime)
        /\ lastResetTime = MostRecentSunday(wqOp.tickTime)

\* C3 (amended): a tick at or after the first Sunday 00:00 following
\* lastResetTime sets turbidity to 100 and lastResetTime to the most recent
\* Sunday 00:00 <= t; after every tick whose time is not earlier than the
\* lastResetTime it found, lastResetTime is the most recent Sunday 00:00 not
\* later than the tick time.
C3_WeeklyReset ==
    wqOp.op = "updateTurbidity" =>
        /\ wqOp.tickTime >= FirstSundayAfter(wqOp.oldResetTime) =>
              /\ currentTurbidity = 100 * FP
              /\ lastResetTime = MostRecentSunday(wqOp.tickTime)
        /\ wqOp.tickTime >= wqOp.oldResetTime =>
              lastResetTime = MostRecentSunday(wqOp.tickTime)

\* C3 witness: a tick past the next Sunday found a turbidity other than the
\* default, reset it and advanced lastResetTime.
C3_Witness ==
    /\ wqOp.op = "updateTurbidity"
    /\ wqOp.tickTime >= FirstSundayAfter(wqOp.oldResetTime)
    /\ wqOp.oldTurbidity # 100 * FP
    /\ currentTurbidity = 100 * FP
    /\ lastResetTime > wqOp.oldResetTime

(***************************************************************************)
(* Properties of the FishBehaviorManager (SpecFish)                        *)
(***************************************************************************)
AfterUpdateWithPet == fishOp.op = "updateBehavior" /\ fishOp.pet # NoPet

\* C4: updateBehavior with a pet whose health is <= 0 leaves isDead = true,
\* movementPattern = 'dead' and speed = 0, for every water level, personality
\* and previous state.
C4_DeadAtZeroHealth ==
    (AfterUpdateWithPet /\ fishOp.pet.health <= 0) =>
        /\ behaviorState.isDead
        /\ behaviorState.movementPattern = "dead"
        /\ behaviorState.speed = 0

\* C4 witness: a fish that was alive and moving in clean water is given a
\* pet of health 0 with the fastest personality.
C4_Witness ==
    /\ AfterUpdateWithPet
    /\ fishOp.pet.health = 0
    /\ fishOp.pet.personality = "active"
    /\ fishOp.level = "clean"
    /\ ~fishOp.wasDead
    /\ behaviorState.isDead
    /\ behaviorState.speed = 0

\* C5: the flags produced by updateBehavior depend on its two arguments only:
\* after updateBehavior with health > 20 and a level other than very_dirty,
\* isDead = false and isDying = false, whatever earlier calls had set.
C5_FlagsRecomputed ==
    (AfterUpdateWithPet /\ fishOp.pet.health > 20 /\ fishOp.level # "very_dirty") =>
        /\ ~behaviorState.isDead
        /\ ~behaviorState.isDying

\* C6: after updateBehavior with a non-null pet, speed = baseSpeed(1.0) *
\* waterMultiplier * healthFactor * personalityMultiplier, whatever the
\* previous speed was.
C6_WaterMultiplier ==
    [clean |-> 12, moderate |-> 10, dirty |-> 6, very_dirty |-> 3]       \* tenths

C6_PersonalityMultiplier ==
    [active |-> 13, calm |-> 8, playful |-> 11, shy |-> 9, curious |-> 10] \* tenths

C6_HealthFactor(health) ==                                               \* fiftieths
    IF health <= 0 THEN 0
    ELSE IF health <= 20 THEN 15
    ELSE IF health <= 50 THEN health
    ELSE 50

C6_SpeedIsProduct ==
    AfterUpdateWithPet =>
        behaviorState.speed * (10 * 50 * 10) =
            SpeedDen * C6_WaterMultiplier[fishOp.level]
                     * C6_HealthFactor(fishOp.pet.health)
                     * C6_PersonalityMultiplier[fishOp.pet.personality]

\* C6 witness: the call (clean, health 100, active) repeated: speed is
\* 1.2 * 1.3 = 1.56 after the second call too.
C6_Witness ==
    /\ AfterUpdateWithPet
    /\ fishOp.repeated
    /\ fishOp.level = "clean"
    /\ fishOp.pet = [health |-> 100, personality |-> "active"]
    /\ behaviorState.speed * 100 = 156 * SpeedDen

(***************************************************************************)
(* Properties of the store (SpecStore)                                     *)
(***************************************************************************)
\* C7: in every reachable state the live pet's status equals
\* determinePetStatus(health): dead if health <= 0, critical if <= 20,
\* at_risk if <= 50, else alive.
C7_StatusMatchesHealth ==
    pet.current # NoPet =>
        pet.current.status =
            IF pet.current.health <= 0 THEN "dead"
            ELSE IF pet.current.health <= 20 THEN "critical"
            ELSE IF pet.current.health <= 50 THEN "at_risk"
            ELSE "alive"

\* C8: the live pet's health, when a pet exists, lies in [0, 100].
C8_HealthInRange ==
    pet.current # NoPet =>
        /\ pet.current.health >= 0
        /\ pet.current.health <= 100

\* C8 witness: updatePetHealth was called with a value above 100 on a pet
\* whose health was lower, and the health is 100.
C8_Witness ==
    /\ storeOp.op = "updatePetHealth"
    /\ storeOp.arg > 100
    /\ storeOp.changed
    /\ pet.current # NoPet
    /\ pet.current.health = 100

(***************************************************************************)
(* Properties of the health calculations (SpecCalc)                        *)
(***************************************************************************)
AfterDecay == calc.fn = "calculateHealthDecayFromUsage"

\* C9: calculateHealthDecayFromUsage(usage, limit) is 0 when usage <= 0; for
\* usage > 0 and limit > 0 it is min(usage / limit, 2.0) * HEALTH_DECAY_RATE,
\* so every usage >= 2 * limit gives the same capped decay; and the result is
\* non-decreasing in usage.
C9_DecayCapped ==
    AfterDecay =>
        /\ calc.usageTime <= 0 => calc.result = RatInt(0)
        /\ (calc.usageTime > 0 /\ calc.timeLimit > 0) =>
              /\ calc.usageTime <= 2 * calc.timeLimit =>
                    calc.result.n * calc.timeLimit = calc.result.d * calc.usageTime * 1
              /\ calc.usageTime >= 2 * calc.timeLimit => calc.result = RatInt(2 * 1)
        /\ \A u \in UsageTimes :
              u >= calc.usageTime =>
                  RatLE(calc.result, calculateHealthDecayFromUsage(u, calc.timeLimit))

\* C9 witness: usage at ten times a positive limit, decay at the cap.
C9_Witness ==
    /\ AfterDecay
    /\ calc.timeLimit > 0
    /\ calc.usageTime = 10 * calc.timeLimit
    /\ calc.result = RatInt(2)

\* C10: in calculateTotalUsageDamage an app with positive usage whose
\* configured daily limit is <= 0 (exactly 0 included) contributes the maximum
\* health decay constant; only an app with no entry in the restriction map is
\* given the default limit.
C10_Contribution(usage, restrictions) ==
    IF usage.dailyUsage <= 0 THEN RatInt(0)
    ELSE IF usage.appId \notin DOMAIN restrictions
    THEN RatMin(Rat(usage.dailyUsage, 30 * 60 * 1000), RatInt(2))
    ELSE IF restrictions[usage.appId] <= 0 THEN RatInt(100)
    ELSE RatMin(Rat(usage.dailyUsage, restrictions[usage.appId]), RatInt(2))

RECURSIVE C10_Total(_, _)
C10_Total(appUsages, restrictions) ==
    IF appUsages = <<>> THEN RatInt(0)
    ELSE RatAdd(C10_Total(Tail(appUsages), restrictions),
                C10_Contribution(Head(appUsages), restrictions))

C10_NonPositiveLimitIsMaxDecay ==
    calc.fn = "calculateTotalUsageDamage" =>
        calc.result = C10_Total(calc.appUsages, calc.restrictions)

AfterComplex == calc.fn = "updatePetHealthComplex"

\* The net damage claimed for the recorded call, as a fraction num / den:
\* totalUsageDamage + elapsed * decayRate * 0.1 - offline * restoreRate,
\* with decayRate 1 and restoreRate 0.5.
C11_NetDamageDen == 10 * calculateTotalUsageDamage(calc.appUsages, calc.restrictions).d

C11_NetDamageNum ==
    LET usageDamage == calculateTotalUsageDamage(calc.appUsages, calc.restrictions)
    IN  10 * usageDamage.n + calc.elapsedMinutes * usageDamage.d
            - 5 * calc.offlineMinutes * usageDamage.d

\* The limit that applies to the single app of the recorded call.
C11_LimitOfOnlyApp ==
    IF calc.appUsages[1].appId \in DOMAIN calc.restrictions
    THEN calc.restrictions[calc.appUsages[1].appId]
    ELSE 30 * 60 * 1000

\* C11: updatePetHealthComplex(current, usages, limits, elapsed, offline)
\* returns health = clamp(current - (totalUsageDamage + elapsed * decayRate
\* * 0.1 - offline * restoreRate), 0, 100), with status, riskPercentage
\* (100 - health) and waterTurbidity (100 - health) derived from that health;
\* a pet at 100 with one app at usage >= 2 * limit (a positive limit) and no
\* elapsed or offline time drops by exactly the capped decay, whatever the
\* usage beyond that.
C11_ComplexUpdate ==
    AfterComplex =>
        LET num    == calc.currentHealth * C11_NetDamageDen - C11_NetDamageNum
            den    == C11_NetDamageDen
            health == calc.result.health
        IN  /\ num <= 0 => health = RatInt(0)
            /\ num >= 100 * den => health = RatInt(100)
            /\ (0 < num /\ num < 100 * den) => health.n * den = health.d * num
            /\ calc.result.status = determinePetStatusRat(health)
            /\ calc.result.riskPercentage.n = 100 * health.d - health.n
            /\ calc.result.riskPercentage.d = health.d
            /\ calc.result.waterTurbidity = calc.result.riskPercentage
            /\ ( /\ calc.currentHealth = 100
                 /\ Len(calc.appUsages) = 1
                 /\ calc.elapsedMinutes = 0
                 /\ calc.offlineMinutes = 0
                 /\ C11_LimitOfOnlyApp > 0
                 /\ calc.appUsages[1].dailyUsage >= 2 * C11_LimitOfOnlyApp )
               => health = RatInt(100 - 2 * 1)

\* C11 witness: a pet at 100, one app used for ten times its 30-minute
\* limit, nothing else: the health is 98.
C11_Witness ==
    /\ AfterComplex
    /\ calc.currentHealth = 100
    /\ Len(calc.appUsages) = 1
    /\ calc.elapsedMinutes = 0
    /\ calc.offlineMinutes = 0
    /\ C11_LimitOfOnlyApp = 30 * MsPerMinute
    /\ calc.appUsages[1].dailyUsage = 10 * C11_LimitOfOnlyApp
    /\ calc.result.health = RatInt(98)
    /\ calc.result.status = "alive"
    /\ calc.result.waterTurbidity = RatInt(2)

AfterNewHealth == calc.fn = "calculateNewHealth"

\* C12: calculateNewHealth(h, d) is min(100, max(0, h + d)) for h and d of
\* any magnitude, so it is always in [0, 100], and it is h when d = 0 and h
\* is in [0, 100].
C12_NewHealthClamped ==
    AfterNewHealth =>
        LET h    == calc.currentHealth
            d    == calc.healthChange
            sumN == h.n * d.d + d.n * h.d
            sumD == h.d * d.d
            r    == calc.result
        IN  /\ sumN <= 0 => r = RatInt(0)
            /\ sumN >= 100 * sumD => r = RatInt(100)
            /\ (0 < sumN /\ sumN < 100 * sumD) => r.n * sumD = r.d * sumN
            /\ 0 <= r.n /\ r.n <= 100 * r.d
            /\ (d.n = 0 /\ 0 <= h.n /\ h.n <= 100 * h.d) => r = h

\* C12 witness: a health in range and a change of -10,000 give 0.
C12_Witness ==
    /\ AfterNewHealth
    /\ calc.currentHealth = RatInt(50)
    /\ calc.healthChange = RatInt(-10000)
    /\ calc.result = RatInt(0)

AfterStatus == calc.fn = "determinePetStatus"

\* C13: for every health in [0, 100] determinePetStatus returns exactly one
\* of dead / critical / at_risk / alive: dead iff health <= 0, critical iff
\* 0 < health <= 20, at_risk iff 20 < health <= 50, alive iff health > 50.
C13_StatusBands ==
    (AfterStatus /\ 0 <= calc.health.n /\ calc.health.n <= 100 * calc.health.d) =>
        LET n == calc.health.n
            d == calc.health.d
        IN  /\ calc.result \in {"dead", "critical", "at_risk", "alive"}
            /\ calc.result = "dead"     <=> n <= 0
            /\ calc.result = "critical" <=> (0 < n /\ n <= 20 * d)
            /\ calc.result = "at_risk"  <=> (20 * d < n /\ n <= 50 * d)
            /\ calc.result = "alive"    <=> n > 50 * d

\* C13 witness: health exactly 20 is critical.
C13_Witness ==
    /\ AfterStatus
    /\ calc.health = RatInt(20)
    /\ calc.result = "critical"

\* The names of the pets in the memorial, in order.
DeadPetNames == [i \in DOMAIN memorial.deadPets |-> memorial.deadPets[i].name]

\* C14: after any sequence of createPet and killPet no two pets, live or
\* dead, share a name.
C14_NamesUnique ==
    /\ \A i, j \in DOMAIN DeadPetNames : i # j => DeadPetNames[i] # DeadPetNames[j]
    /\ pet.current # NoPet =>
           \A i \in DOMAIN DeadPetNames : DeadPetNames[i] # pet.current.name

\* C15: whenever updatePetHealth brings the live pet's health to 0, the pet
\* is recorded in the memorial and is no longer the live pet.
C15_DeadPetAtZeroHealth ==
    [][ ( /\ storeOp'.op = "updatePetHealth"
          /\ pet.current # NoPet
          /\ updatePetHealthClamp(storeOp'.arg) = MIN_HEALTH )
        => ( /\ pet'.current = NoPet
             /\ \E i \in DOMAIN memorial'.deadPets :
                    /\ memorial'.deadPets[i].id = pet.current.id
                    /\ memorial'.deadPets[i].name = pet.current.name ) ]_vars

\* C16: killPet with a live pet appends exactly one DeadPet carrying that
\* pet's id, name, personality and createdAt, clears the live pet, stops
\* monitoring and leaves the earlier records as they were and in place;
\* killPet with no live pet changes nothing in the store.
C16_KillPetAppendsOnce ==
    [][ storeOp'.op = "killPet" =>
          IF pet.current # NoPet
          THEN LET n == Len(memorial.deadPets)
               IN  /\ Len(memorial'.deadPets) = n + 1
                   /\ SubSeq(memorial'.deadPets, 1, n) = memorial.deadPets
                   /\ memorial'.deadPets[n + 1].id = pet.current.id
                   /\ memorial'.deadPets[n + 1].name = pet.current.name
                   /\ memorial'.deadPets[n + 1].personality = pet.current.personality
                   /\ memorial'.deadPets[n + 1].createdAt = pet.current.createdAt
                   /\ pet'.current = NoPet
                   /\ pet'.isMonitoring = FALSE
          ELSE UNCHANGED <<pet, memorial, game>> ]_vars

\* C16 witness: a second pet has just been killed, the first one's record
\* is still in the memorial.
C16_Witness ==
    /\ storeOp.op = "killPet"
    /\ storeOp.hadPet
    /\ Len(memorial.deadPets) = 2
    /\ pet.current = NoPet
    /\ pet.isMonitoring = FALSE

\* The names pushed to usedNames so far.
UsedNames == {memorial.usedNames[i] : i \in DOMAIN memorial.usedNames}

\* C17: createPet called with an invalid name (empty after trimming, longer
\* than 12 characters, or already used) creates no pet and leaves the
\* current pet, usedNames and totalPetsRaised unchanged.
C17_InvalidNameRejected ==
    [][ ( /\ storeOp'.op = "createPet"
          /\ \/ Len(trim(storeOp'.name)) = 0
             \/ Len(trim(storeOp'.name)) > 12
             \/ trim(storeOp'.name) \in UsedNames )
        => ( /\ pet'.current = pet.current
             /\ memorial'.usedNames = memorial.usedNames
             /\ game'.stats.totalPetsRaised = game.stats.totalPetsRaised ) ]_vars

\* C18: performManualWaterChange and the weekly auto-reset are semantically
\* identical: invoked at the same time from the same manager state, both
\* leave the same turbidity, the same lastUpdateTime and the same
\* lastResetTime.
C18_ManualChangeIsWeeklyReset ==
    wqOp.op = "performManualWaterChange" =>
        /\ currentTurbidity = performWeeklyReset(wqOp.tickTime).currentTurbidity
        /\ lastUpdateTime = performWeeklyReset(wqOp.tickTime).lastUpdateTime
        /\ lastResetTime = performWeeklyReset(wqOp.tickTime).lastResetTime

AfterSnapshot == calc.fn = "getCurrentWaterQuality"

C20_LevelThresholds ==
    AfterSnapshot =>
        LET t     == calc.turbidity
            level == calc.result.level
        IN  /\ level \in {"clean", "moderate", "dirty", "very_dirty"}
            /\ level = "clean"      <=> t < 20 * FP
            /\ level = "moderate"   <=> (20 * FP <= t /\ t < 50 * FP)
            /\ level = "dirty"      <=> (50 * FP <= t /\ t < 80 * FP)
            /\ level = "very_dirty" <=> t >= 80 * FP

\* C20 witness: a turbidity just below 50 % is still moderate.
C20_Witness ==
    /\ AfterSnapshot
    /\ calc.turbidity = 50 * FP - 1
    /\ calc.result.level = "moderate"

(***************************************************************************)
(* Monitoring lifecycle and observers                                      *)
(***************************************************************************)
OwnedTimers(owners) == {t \in timers : t.owner \in owners}

\* C21: each service owns exactly its full set of live interval timers (one,
\* two, one) while it reports monitoring and none otherwise, after any
\* sequence of start and stop calls; a restart leaves no earlier timer alive.
C21_TimersMatchMonitoring ==
    /\ OwnedTimers({"wq.updateTimer"}) =
           IF wqMon.isActive THEN {wqMon.updateTimer} ELSE {}
    /\ wqMon.isActive => wqMon.updateTimer # NoTimer
    /\ OwnedTimers({"fish.updateTimer", "fish.animationTimer"}) =
           IF fishMon.isActive THEN {fishMon.updateTimer, fishMon.animationTimer} ELSE {}
    /\ fishMon.isActive => /\ fishMon.updateTimer # NoTimer
                           /\ fishMon.animationTimer # NoTimer
                           /\ fishMon.updateTimer # fishMon.animationTimer
    /\ OwnedTimers({"usage.monitoringInterval"}) =
           IF usageMon.isMonitoring THEN {usageMon.monitoringInterval} ELSE {}
    /\ usageMon.isMonitoring => usageMon.monitoringInterval # NoTimer

\* startBehaviorMonitoring was called while a session was active
C21_Witness ==
    /\ monOp.op = "fish.startBehaviorMonitoring"
    /\ monOp.wasActive
    /\ Cardinality(timers) = 2

WqStopped   == [isActive |-> FALSE, updateTimer |-> NoTimer, onStateChange |-> NoCallback]
FishStopped == [isActive |-> FALSE, updateTimer |-> NoTimer, animationTimer |-> NoTimer,
                onStateChange |-> NoCallback]

\* C22: a stop call made in any state ends with no timer, no observer and
\* not monitoring, leaves turbidity, the clocks of the water quality and the
\* behaviour state and motion as they were, and changes nothing when the
\* manager was already stopped.
C22_StopIdempotent ==
    [][ /\ WqStopMonitoring =>
              /\ wqMon' = WqStopped
              /\ OwnedTimers({"wq.updateTimer"})' = {}
              /\ <<currentTurbidity, lastUpdateTime, lastResetTime>>' =
                   <<currentTurbidity, lastUpdateTime, lastResetTime>>
              /\ wqMon = WqStopped => timers' = timers
        /\ StopBehaviorMonitoring =>
              /\ fishMon' = FishStopped
              /\ OwnedTimers({"fish.updateTimer", "fish.animationTimer"})' = {}
              /\ <<behaviorState, motion>>' = <<behaviorState, motion>>
              /\ fishMon = FishStopped => timers' = timers ]_vars

\* a stop that found the manager stopped, with a fish that had begun to die
C22_Witness ==
    /\ monOp.op = "fish.stopBehaviorMonitoring"
    /\ ~monOp.wasActive
    /\ behaviorState.isDying
    /\ fishMon = FishStopped

Observer(service, wq, fish, usage) ==
    CASE service = "wq"    -> wq.onStateChange
      [] service = "fish"  -> fish.onStateChange
      [] service = "usage" -> usage.onUsageUpdate

Monitoring(service, wq, fish, usage) ==
    CASE service = "wq"    -> wq.isActive
      [] service = "fish"  -> fish.isActive
      [] service = "usage" -> usage.isMonitoring

\* C23: one observer per service, the last one registered.  Every
\* invocation a step makes goes to the callback registered when the step
\* ends, and only while the service is monitoring: a callback replaced by a
\* later start or removed by stop is not invoked by any tick, external call
\* or fetch completing later.  A start of the water quality or behaviour
\* manager invokes the new callback once in the same step, with the state
\* as it is then.
C23_LastRegistrationWins ==
    [][ /\ \A service \in Services :
              (Observer(service, wqMon', fishMon', usageMon') # NoCallback)
                 <=> Monitoring(service, wqMon', fishMon', usageMon')
        /\ \A i \in DOMAIN notified' :
              /\ notified'[i].callback =
                    Observer(notified'[i].service, wqMon', fishMon', usageMon')
              /\ notified'[i].callback # NoCallback
        /\ \A onStateChange \in Callbacks :
              /\ WqStartMonitoring(onStateChange) =>
                    notified' = <<[by       |-> "startMonitoring",
                                   service  |-> "wq",
                                   callback |-> onStateChange,
                                   state    |-> getCurrentWaterQuality(currentTurbidity)]>>
              /\ StartBehaviorMonitoring(onStateChange) =>
                    notified' = <<[by       |-> "startBehaviorMonitoring",
                                   service  |-> "fish",
                                   callback |-> onStateChange,
                                   state    |-> [behavior |-> behaviorState,
                                                 position |-> motion.position]]>> ]_vars

\* a fetch begun for callback A completes after a restart with callback B
C23_Witness ==
    /\ monOp.op = "usage.updateUsageStats"
    /\ monOp.startedFor = "A"
    /\ usageMon.onUsageUpdate = "B"
    /\ notified # <<>>
    /\ notified[1].callback = "B"

\* C24: an updateTurbidity tick with positive elapsed time, made while an
\* observer is registered, completes normally and invokes the observer
\* exactly once with the snapshot of the turbidity it stored.
C24_TickNotifiesOnce ==
    [][ ( /\ \/ WqUpdateTimerFires
             \/ \E inputs \in SeqsUpTo(SampleInputs, 1) : WqUpdateTurbidityCalled(inputs)
          /\ wqOp'.timeDelta > 0
          /\ wqMon.onStateChange # NoCallback )
        => /\ ~wqOp'.threw
           /\ notified' = <<[by       |-> "updateTurbidity",
                             service  |-> "wq",
                             callback |-> wqMon.onStateChange,
                             state    |-> getCurrentWaterQuality(currentTurbidity')]>> ]_vars

InTank(position) ==
    /\ TANK_LEFT <= position.x /\ position.x <= TANK_RIGHT
    /\ TANK_TOP <= position.y /\ position.y <= TANK_BOTTOM

\* C25: after every position update, in every movement mode and from any
\* earlier position, 0.1 <= x <= 0.9 and 0.2 <= y <= 0.8.
C25_PositionInTank ==
    [][FishUpdateTimerFires => InTank(motion'.position)]_vars

\* a position update of a distressed fish that setPosition had moved
C25_Witness ==
    /\ monOp.op = "fish.updateTimer"
    /\ monOp.from # createInitialMotion.position
    /\ ~InTank(monOp.from)
    /\ behaviorState.movementPattern = "distressed"
    /\ ~behaviorState.isDying /\ ~behaviorState.isDead
    /\ InTank(motion.position)

\* C26: while the fish is dying and not dead, a position update leaves y at
\* min(y + 0.001, 0.8): y does not decrease, and a position inside the tank
\* is not moved by the boundary clamp.
C26_DyingSinks ==
    [][ (FishUpdateTimerFires /\ behaviorState.isDying /\ ~behaviorState.isDead)
        => /\ motion'.position.y = Min(motion.position.y + 10, TANK_BOTTOM)
           /\ motion'.position.y >= motion.position.y ]_vars


(***************************************************************************)
(* Persistence: full saves and backups                                     *)
(***************************************************************************)
\* a suspended saveAllData execution ended in this step
SaveEnded == \E storageOk \in BOOLEAN : SaveAllDataCompletes(storageOk)

\* C27: at most one saveAllData execution is suspended at database.saveData,
\* isSaving is set exactly while one is, so every execution that ends (a
\* write that succeeded or failed, the equal-hash shortcut and its exception)
\* leaves the flag cleared, and a call is refused only while an execution is
\* really in flight.
C27_OneSaveInFlight ==
    [][/\ Len(saves') <= 1
       /\ isSaving' <=> saves' # <<>>
       /\ SaveEnded => ~isSaving'
       /\ SaveAllData /\ saveOp'.returned = "threw" => ~isSaving'
       /\ SaveAllData /\ saveOp'.returned = "false" => saves # <<>>]_vars

\* after a write that succeeded, a later write failed: the execution ended
\* with false and the flag is clear
C27_Witness ==
    /\ saveOp.op = "saveAllData" /\ saveOp.returned = "false"
    /\ ~isSaving /\ saves = <<>>
    /\ lastSavedState # NoSavedState

\* the persisted fields of a stored item
PersistedFields(json) == [k \in DOMAIN databaseData |-> validateDatabaseData(json)[k]]

\* C28: when saveAllData resolves true, the stored item holds the store's
\* current value of every persisted field.
C28_SavedIsCurrent ==
    [][SaveEnded /\ saveOp'.returned = "true" => PersistedFields(stored') = databaseData']_vars

\* C29: a saveAllData call made while another execution is in flight does
\* not return before a write of its state: it stays pending.
C29_OverlappingCallWaits ==
    [][SaveAllData /\ isSaving => saveOp'.returned = "pending"]_vars

\* C30: with working storage, exportData succeeds, importData of the string
\* it returned succeeds, and the stored item is then equal to the exported
\* one.
C30_RoundTrip ==
    [][/\ ExportData(TRUE) => saveOp'.success
       /\ ImportData(TRUE) => saveOp'.success /\ stored' = exported.from]_vars

(***************************************************************************)
(* Null pets, clock skew and the choice of motion                          *)
(***************************************************************************)
\* C34: updateBehavior with pet = null sets isDead and movementPattern =
\* 'dead', leaves every other field of the state (speed, opacity, distress)
\* as it was, and invokes the registered observer once with that state.
C34_NullPetIsDead ==
    [][(\E waterLevel \in WaterLevels : UpdateBehavior(waterLevel, NoPet)) =>
          /\ behaviorState' = [behaviorState EXCEPT !.isDead = TRUE,
                                                    !.movementPattern = "dead"]
          /\ fishMon.onStateChange # NoCallback =>
                /\ Len(notified') = 1
                /\ notified'[1].callback = fishMon.onStateChange
                /\ notified'[1].state.behavior = behaviorState']_vars

\* a null pet arrived with very dirty water while the state still had the
\* values of clean water, and the observer was invoked
C34_Witness ==
    /\ fishOp.op = "updateBehavior" /\ fishOp.pet = NoPet /\ fishOp.level = "very_dirty"
    /\ behaviorState.isDead /\ behaviorState.movementPattern = "dead"
    /\ behaviorState.distressLevel = 0 /\ behaviorState.opacity = 10
    /\ Len(notified) = 1 /\ notified[1].by = "updateBehavior"

\* C35: an updateTurbidity call for which no weekly reset is due and whose
\* elapsed time since lastUpdateTime is zero or negative changes neither the
\* turbidity nor lastUpdateTime nor lastResetTime and invokes no observer,
\* whatever samples it is given.
C35_SkewIsNoOp ==
    [][/\ \E inputs \in SeqsUpTo(SampleInputs, 1) : UpdateTurbidity(inputs)
       /\ now < getNextSunday(lastResetTime)
       /\ now <= lastUpdateTime
       => /\ UNCHANGED <<currentTurbidity, lastUpdateTime, lastResetTime>>
          /\ notified' = <<>>]_vars

\* the clock was set back under a registered observer and the next call
\* changed nothing
C35_Witness ==
    /\ wqOp.op = "updateTurbidity" /\ ~wqOp.resetDue /\ wqOp.timeDelta < 0
    /\ wqMon.onStateChange # NoCallback
    /\ currentTurbidity = wqOp.oldTurbidity
    /\ lastUpdateTime > now
    /\ notified = <<>>

\* C36: a position update chooses its motion from the flags in the order
\* dead, dying, distressed, normal: floating for isDead, else sinking for
\* isDying, else jitter for isDistressed, and the circular motion only when
\* none of the three flags is set.
C36_MotionByFlags ==
    [][FishUpdateTimerFires =>
          monOp'.called =
             IF behaviorState.isDead THEN "updateDeadPosition"
             ELSE IF behaviorState.isDying THEN "updateDyingPosition"
             ELSE IF behaviorState.isDistressed THEN "updateDistressedPosition"
             ELSE "updateNormalPosition"]_vars

(***************************************************************************)
(* Store bookkeeping                                                       *)
(***************************************************************************)
\* C39: no pet disappears without a memorial record: totalPetsRaised is the
\* number of DeadPet records plus one if a pet is alive, and totalPetDeaths
\* is the number of DeadPet records.
C39_EveryPetAccounted ==
    /\ game.stats.totalPetsRaised =
          Len(memorial.deadPets) + (IF pet.current # NoPet THEN 1 ELSE 0)
    /\ game.stats.totalPetDeaths = Len(memorial.deadPets)

\* C40: after an updatePetHealth that changes the pet's health, the
\* waterQuality kept in the store (a degree of turbidity) is
\* calculateWaterTurbidity of the new health.
C40_TurbidityFromHealth ==
    [][(\E health \in StoreHealthArgs, t \in StoreTimes : UpdatePetHealth(health, t))
       /\ storeOp'.changed
       => RatInt(game'.waterQuality) = calculateWaterTurbidity(RatInt(pet'.current.health))]_vars

(***************************************************************************)
(* Usage limits                                                            *)
(***************************************************************************)
AfterCheckTimeLimit == calc.fn = "checkTimeLimit"

\* usage / dailyLimit >= num / den, the quotient of a positive usage by a
\* limit of zero being infinite and 0 / 0 comparing false
C32_RatioAtLeast(usage, dailyLimit, num, den) ==
    IF dailyLimit > 0 THEN usage * den >= num * dailyLimit
    ELSE IF dailyLimit < 0 THEN usage * den <= num * dailyLimit
    ELSE usage > 0

C32_InList(list, usage) == \E i \in DOMAIN list : list[i] = usage

\* C32: checkTimeLimit puts a sample in 'exceeded' iff its app has a
\* restriction and usage / dailyLimit >= 1, in 'approaching' iff it has a
\* restriction and 0.8 <= usage / dailyLimit < 1; no sample is in both
\* lists, and a sample of an app without restriction is in neither.  The
\* restriction of an app is the first one of its package.
C32_LimitClasses ==
    AfterCheckTimeLimit =>
        \A k \in DOMAIN calc.usageData :
            LET usage      == calc.usageData[k]
                restricted == \E i \in DOMAIN calc.restrictedApps :
                                 calc.restrictedApps[i].packageName = usage.packageName
                dailyLimit == calc.restrictedApps[
                                 CHOOSE i \in DOMAIN calc.restrictedApps :
                                    /\ calc.restrictedApps[i].packageName = usage.packageName
                                    /\ \A j \in 1..(i - 1) :
                                          calc.restrictedApps[j].packageName # usage.packageName
                              ].dailyLimit
                exceeds    == restricted /\ C32_RatioAtLeast(usage.todayUsage, dailyLimit, 1, 1)
                approaches == /\ restricted
                              /\ C32_RatioAtLeast(usage.todayUsage, dailyLimit, 4, 5)
                              /\ ~C32_RatioAtLeast(usage.todayUsage, dailyLimit, 1, 1)
            IN  /\ C32_InList(calc.result.exceeded, usage) <=> exceeds
                /\ C32_InList(calc.result.approaching, usage) <=> approaches
                /\ ~(C32_InList(calc.result.exceeded, usage)
                     /\ C32_InList(calc.result.approaching, usage))
                /\ ~restricted => /\ ~C32_InList(calc.result.exceeded, usage)
                                  /\ ~C32_InList(calc.result.approaching, usage)

\* one sample at exactly the limit and one at exactly 80 % of it
C32_Witness ==
    /\ AfterCheckTimeLimit
    /\ calc.restrictedApps = <<[packageName |-> "com.video", dailyLimit |-> 60]>>
    /\ calc.result.exceeded = <<[packageName |-> "com.video", todayUsage |-> 60]>>
    /\ calc.result.approaching = <<[packageName |-> "com.video", todayUsage |-> 48]>>

(***************************************************************************)
(* Permission failures                                                     *)
(***************************************************************************)
\* C33: a getUsageStats call made while the usage-stats permission is not
\* granted returns {success: false} and no usage data, whatever calls
\* preceded it.
C33_NoPermissionFails ==
    [][/\ \E timeRangeMs \in TimeRanges, permissionOk \in BOOLEAN, statsOk \in BOOLEAN,
             rawStats \in RawStats :
             GetUsageStats(timeRangeMs, permissionOk, statsOk, rawStats)
       /\ ~granted
       => ~statsOp'.success /\ statsOp'.data = <<>>]_vars

(***************************************************************************)
(* The database: fallback at initialize, overlapping partial saves and     *)
(* reading back what was saved                                             *)
(***************************************************************************)
\* C31: an initialize() that finds no item, or an item that does not parse or
\* fails validation, either leaves the default database in the item, so that
\* a following loadData returns it, or returns a failure result: a storage
\* error is returned as success = FALSE.
C31_FallbackOrFailure ==
    [][\A readOk \in BOOLEAN, writeOk \in BOOLEAN :
          (/\ ~isInitialized
           /\ ~getRawDataSucceeds(stored, TRUE)
           /\ Initialize(readOk, writeOk))
          => \/ ~dbOp'.success
             \/ /\ getRawDataSucceeds(stored', TRUE)
                /\ validateDatabaseData(stored') = createDefaultDatabase]_vars

\* C37: when a savePet and an updateGameStats have both returned success,
\* the item holds the pet of the one and the statistics of the other.
C37_BothUpdatesStored ==
    [][\A method \in Methods :
          (/\ SaveDataWrites(method, TRUE)
           /\ \A other \in Methods : partials'[other].phase = "done")
          => /\ validateDatabaseData(stored').currentPet =
                  partials'["savePet"].data.currentPet
             /\ validateDatabaseData(stored').gameStats =
                  partials'["updateGameStats"].data.gameStats]_vars

\* C38: a loadData that follows a savePet which returned success, with the
\* storage working, returns success with the pet that was saved.
C38_SavedPetReadBack ==
    [][(/\ dbOp.op = "savePet"
        /\ dbOp.success
        /\ LoadData(TRUE, TRUE))
       => /\ dbOp'.success
          /\ dbOp'.data.currentPet = dbOp.data.currentPet]_vars

====
